---- MODULE Spec2Model ----
(***************************************************************************)
(* The Markdown <-> Notion block converter of notion-mcp-server            *)
(* (markdownToBlocks, blocksToMarkdown, parseRichText and their helpers).  *)
(*                                                                         *)
(* A JavaScript string is modelled as a sequence of one-character strings, *)
(* so that slicing, prefix tests and regular expressions are computed on   *)
(* characters.  Indexes into strings and arrays are 0-based, as in the     *)
(* source; At(s, k) reads position k.  The local variables of each         *)
(* converter function are the fields of one record, the function's frame,  *)
(* named as in the source.                                                 *)
(***************************************************************************)
EXTENDS Integers, Sequences, FiniteSets, TLC

VARIABLES m2b, prt, b2m, cc, ept, pe, ap, bu

vars == <<m2b, prt, b2m, cc, ept, pe, ap, bu>>

(***************************************************************************)
(* Bounds of the model.                                                    *)
(***************************************************************************)
MaxLineLen == 4
MaxLines == 3
MaxInterior == 2
MaxTextLen == 4
MaxBlocks == 3
MaxRun == 4
MaxSpans == 3
MaxExisting == 2
MaxListingPages == 3
MaxFetches == 4

(***************************************************************************)
(* Characters and JavaScript values.                                       *)
(***************************************************************************)
\* The backquote character (it cannot be written inside a string literal here).
BT == "BT"
TAB == "\t"
NL == "\n"
\* JavaScript undefined (reading past the end of a string) and null.
undefined == "undefined"
null == "null"
\* null in a position typed {url: string} | null: a record, so that it can be
\* compared with a link object.
nullLink == [null |-> TRUE]

\* A value in a position that may hold any JavaScript value: an array is a
\* sequence, and a value that is no array is a record of its kind and, for a
\* string, its characters.
jsString(s) == [kind |-> "string", value |-> s]
jsArray(a) == [kind |-> "array", value |-> a]
jsOther(kind) == [kind |-> kind, value |-> <<>>]

\* The kinds of the values that are neither strings nor arrays.
OtherKinds == {"number", "boolean", "object", "null", "undefined"}

\* The characters matched by \s and removed by trim() that the inputs contain.
WhiteSpace == {" ", TAB}
\* The characters matched by \d.
Digits == {"0", "1", "2", "3", "4", "5", "6", "7", "8", "9"}

\* The strings over the characters A of length at most n.
Strings(A, n) == UNION {[1..k -> A] : k \in 0..n}
\* The arrays over the elements S of length from lo to n.
Arrays(S, lo, n) == UNION {[1..k -> S] : k \in lo..n}

(***************************************************************************)
(* String and array primitives of JavaScript.                              *)
(***************************************************************************)
At(s, k) == IF k \in 0..(Len(s) - 1) THEN s[k + 1] ELSE undefined

\* s.slice(a) and s.slice(a, b), for 0 <= a.
sliceFrom(s, a) == SubSeq(s, a + 1, Len(s))
slice(s, a, b) == SubSeq(s, a + 1, b)

startsWith(s, p) == Len(p) <= Len(s) /\ SubSeq(s, 1, Len(p)) = p

\* s.indexOf(c, from): the first position >= from holding c, or -1.
indexOf(s, c, from) ==
  LET hits == {k \in from..(Len(s) - 1) : s[k + 1] = c}
  IN IF hits = {} THEN -1 ELSE CHOOSE k \in hits : \A h \in hits : k <= h

RECURSIVE trimStart(_)
trimStart(s) ==
  IF s # <<>> /\ Head(s) \in WhiteSpace THEN trimStart(Tail(s)) ELSE s

RECURSIVE trimEnd(_)
trimEnd(s) ==
  IF s # <<>> /\ s[Len(s)] \in WhiteSpace
  THEN trimEnd(SubSeq(s, 1, Len(s) - 1))
  ELSE s

\* trim as it would be if it removed nothing.
trimNothing(s) == s

trim(s) == trimEnd(trimStart(s))

\* arr.join(sep) for an array of strings and a one-character separator.
RECURSIVE join(_, _)
join(arr, sep) ==
  IF arr = <<>> THEN <<>>
  ELSE IF Len(arr) = 1 THEN arr[1]
  ELSE arr[1] \o <<sep>> \o join(Tail(arr), sep)

\* s.split(sep) for a one-character separator: never the empty array.
RECURSIVE split(_, _)
split(s, sep) ==
  LET k == indexOf(s, sep, 0)
  IN IF k = -1 THEN <<s>>
     ELSE <<slice(s, 0, k)>> \o split(sliceFrom(s, k + 1), sep)

\* The concatenation of an array of strings: arr.join('').
RECURSIVE concat(_)
concat(arr) == IF arr = <<>> THEN <<>> ELSE Head(arr) \o concat(Tail(arr))

(***************************************************************************)
(* Rich text.                                                              *)
(***************************************************************************)
NoAnnotations ==
  [bold |-> FALSE, italic |-> FALSE, code |-> FALSE, strikethrough |-> FALSE]

createRichText(content, annotations) ==
  [type |-> "text",
   text |-> [content |-> content, link |-> nullLink],
   annotations |->
     [bold |-> annotations.bold,
      italic |-> annotations.italic,
      strikethrough |-> annotations.strikethrough,
      underline |-> FALSE,
      code |-> annotations.code,
      color |-> "default"]]

\* The active annotation set { bold, italic, code, strikethrough } of a frame.
Active(f) ==
  [bold |-> f.bold, italic |-> f.italic, code |-> f.code,
   strikethrough |-> f.strikethrough]

\* Flushed as it would be if the annotations were not passed on.
FlushedPlain(f) ==
  IF f.current # <<>>
  THEN Append(f.richText, createRichText(f.current, NoAnnotations))
  ELSE f.richText

\* if (current) { richText.push(createRichText(current, {...})) }
Flushed(f) ==
  IF f.current # <<>>
  THEN Append(f.richText, createRichText(f.current, Active(f)))
  ELSE f.richText

\* The frame of parseRichText(text) on entry to its loop.
prtEntry(text) ==
  [text |-> text, i |-> 0, current |-> <<>>, bold |-> FALSE, italic |-> FALSE,
   code |-> FALSE, strikethrough |-> FALSE, richText |-> <<>>,
   result |-> <<>>, pc |-> "for"]

\* The positions found by the link lookahead at position i.
closeBracketAt(text, i) == indexOf(text, "]", i)
openParenAt(text, i) ==
  IF closeBracketAt(text, i) # -1
  THEN indexOf(text, "(", closeBracketAt(text, i))
  ELSE -1
closeParenAt(text, i) ==
  IF openParenAt(text, i) # -1
  THEN indexOf(text, ")", openParenAt(text, i))
  ELSE -1
\* isLinkAt as it would be if the '(' might come anywhere after the ']'.
isLinkAtAnyParen(text, i) ==
  /\ At(text, i) = "["
  /\ closeBracketAt(text, i) # -1
  /\ openParenAt(text, i) # -1
  /\ closeParenAt(text, i) # -1

isLinkAt(text, i) ==
  /\ At(text, i) = "["
  /\ closeBracketAt(text, i) # -1
  /\ openParenAt(text, i) = closeBracketAt(text, i) + 1
  /\ closeParenAt(text, i) # -1

linkSpan(f) ==
  [type |-> "text",
   text |->
     [content |-> slice(f.text, f.i + 1, closeBracketAt(f.text, f.i)),
      link |->
        [url |-> slice(f.text, openParenAt(f.text, f.i) + 1,
                       closeParenAt(f.text, f.i))]],
   annotations |->
     [bold |-> f.bold, italic |-> f.italic,
      strikethrough |-> f.strikethrough, underline |-> FALSE,
      code |-> f.code, color |-> "default"]]

\* One iteration of the character loop of parseRichText, with the loop's i++.
prtIteration(f) ==
  LET char == At(f.text, f.i)
      next == At(f.text, f.i + 1)
  IN IF isLinkAt(f.text, f.i)
     THEN [f EXCEPT !.richText = Append(Flushed(f), linkSpan(f)),
                    !.current = <<>>,
                    !.i = closeParenAt(f.text, f.i) + 1]
     ELSE IF char = "*" /\ next = "*"
     THEN [f EXCEPT !.richText = Flushed(f), !.current = <<>>,
                    !.bold = ~f.bold, !.i = f.i + 2]
     ELSE IF char = "*" /\ next # "*"
     THEN [f EXCEPT !.richText = Flushed(f), !.current = <<>>,
                    !.italic = ~f.italic, !.i = f.i + 1]
     ELSE IF char = BT
     THEN [f EXCEPT !.richText = Flushed(f), !.current = <<>>,
                    !.code = ~f.code, !.i = f.i + 1]
     ELSE IF char = "~" /\ next = "~"
     THEN [f EXCEPT !.richText = Flushed(f), !.current = <<>>,
                    !.strikethrough = ~f.strikethrough, !.i = f.i + 2]
     ELSE [f EXCEPT !.current = Append(f.current, char), !.i = f.i + 1]

\* After the loop: the last flush and the return value.
\* prtReturn as it would be if it returned the spans it has, even none.
prtReturnSpansOnly(f) ==
  [f EXCEPT !.richText = Flushed(f), !.result = Flushed(f), !.pc = "done"]

\* prtReturn as it would be without the flush after the loop.
prtReturnNoFlush(f) ==
  [f EXCEPT !.result = IF Len(f.richText) > 0 THEN f.richText
                       ELSE <<createRichText(f.text, NoAnnotations)>>,
            !.pc = "done"]

prtReturn(f) ==
  LET richText == Flushed(f)
  IN [f EXCEPT !.richText = richText,
               !.result = IF Len(richText) > 0 THEN richText
                          ELSE <<createRichText(f.text, NoAnnotations)>>,
               !.pc = "done"]

prtStep(f) == IF f.i < Len(f.text) THEN prtIteration(f) ELSE prtReturn(f)

RECURSIVE prtRun(_)
prtRun(f) == IF f.pc = "done" THEN f ELSE prtRun(prtStep(f))

parseRichText(text) == prtRun(prtEntry(text)).result

extractPlainText(richText) ==
  concat([k \in 1..Len(richText) |-> richText[k].text.content])

\* The frame of a call of extractPlainText: the array map() builds, one
\* element in each step, and the string join('') returns.
eptEntry(richText) ==
  [richText |-> richText, k |-> 0, parts |-> <<>>, result |-> <<>>,
   pc |-> "map"]

\* The step of map() as it would be if the callback rendered the span.
eptIterationRendered(f) ==
  LET rt == At(f.richText, f.k)
      open == IF rt.annotations.bold THEN <<"*", "*">> ELSE <<>>
  IN [f EXCEPT !.parts = Append(f.parts, open \o rt.text.content \o open),
               !.k = f.k + 1]

eptIteration(f) ==
  [f EXCEPT !.parts = Append(f.parts, At(f.richText, f.k).text.content),
            !.k = f.k + 1]

eptReturn(f) == [f EXCEPT !.result = concat(f.parts), !.pc = "done"]

(***************************************************************************)
(* Block creators.  A block is the record { object, type, [type]: payload }*)
(***************************************************************************)
\* textBlock as it would be if the payload were stored under one fixed key.
textBlockFixedKey(type, text) ==
  [object |-> "block", type |-> type,
   paragraph |-> [rich_text |-> parseRichText(text), color |-> "default"]]

textBlock(type, text) ==
  [object |-> "block", type |-> type]
    @@ (type :> [rich_text |-> parseRichText(text), color |-> "default"])

\* createHeading as it would be if it trimmed its text.
createHeadingTrimmed(level, text) ==
  textBlock(CASE level = 1 -> "heading_1"
              [] level = 2 -> "heading_2"
              [] level = 3 -> "heading_3", trim(text))

createHeading(level, text) ==
  textBlock(CASE level = 1 -> "heading_1"
              [] level = 2 -> "heading_2"
              [] level = 3 -> "heading_3", text)

\* createParagraph as it would be if it trimmed its text.
createParagraphTrimmed(text) == textBlock("paragraph", trim(text))

createParagraph(text) == textBlock("paragraph", text)

createBulletedListItem(text) == textBlock("bulleted_list_item", text)

createNumberedListItem(text) == textBlock("numbered_list_item", text)

createQuote(text) == textBlock("quote", text)

\* 'plain text', the language of a code block whose fence names none.
PlainText == <<"p", "l", "a", "i", "n", " ", "t", "e", "x", "t">>

\* createCodeBlock as it would be without the default language.
createCodeBlockNoDefault(code, language) ==
  [object |-> "block",
   type |-> "code",
   code |->
     [rich_text |-> <<createRichText(code, NoAnnotations)>>,
      language |-> language]]

createCodeBlock(code, language) ==
  [object |-> "block",
   type |-> "code",
   code |->
     [rich_text |-> <<createRichText(code, NoAnnotations)>>,
      language |-> IF language # <<>> THEN language ELSE PlainText]]

createDivider == [object |-> "block", type |-> "divider", divider |-> <<>>]

(***************************************************************************)
(* The regular expressions of markdownToBlocks.                            *)
(***************************************************************************)
\* /^[\-\*]\s/
matchBulleted(line) ==
  Len(line) >= 2 /\ line[1] \in {"-", "*"} /\ line[2] \in WhiteSpace

\* The length of the match of /^\d+\.\s/, or 0 when the line does not match.
numberedPrefix(line) ==
  LET ends == {n \in 1..(Len(line) - 2) :
                 /\ \A k \in 1..n : line[k] \in Digits
                 /\ line[n + 1] = "."
                 /\ line[n + 2] \in WhiteSpace}
  IN IF ends = {} THEN 0 ELSE (CHOOSE n \in ends : TRUE) + 2

matchNumbered(line) == numberedPrefix(line) > 0

\* matchDivider as it would be with the quantifier {2,}.
matchDividerTwo(line) ==
  Len(line) >= 2 /\ \A k \in 1..Len(line) : line[k] \in {"-", "*"}

\* /^[\-\*]{3,}$/
matchDivider(line) ==
  Len(line) >= 3 /\ \A k \in 1..Len(line) : line[k] \in {"-", "*"}

isListItem(line) == matchBulleted(line) \/ matchNumbered(line)

Fence == <<BT, BT, BT>>

(***************************************************************************)
(* markdownToBlocks.  blockLines, listLines and fenceLine record, beside   *)
(* blocks and currentList, the index of the line each block comes from.    *)
(***************************************************************************)
m2bEntry(markdown) ==
  [markdown |-> markdown, lines |-> split(markdown, NL), i |-> 0,
   blocks |-> <<>>, currentList |-> <<>>, currentListType |-> null,
   language |-> <<>>, codeLines |-> <<>>, pc |-> "for",
   blockLines |-> <<>>, listLines |-> <<>>, fenceLine |-> 0]

\* needFlush as it would be if only a blank line ended a list run.
needFlushOnBlank(currentListType, line) ==
  currentListType # null /\ trim(line) = <<>>

\* if (currentListType && !isListItem(line))
needFlush(currentListType, line) ==
  currentListType # null /\ ~isListItem(line)

\* flushList as it would be if it left the buffer as it is.
flushListKeeping(f) ==
  [f EXCEPT !.blocks = f.blocks \o f.currentList,
            !.blockLines = f.blockLines \o f.listLines]

flushList(f) ==
  [f EXCEPT !.blocks = f.blocks \o f.currentList,
            !.blockLines = f.blockLines \o f.listLines,
            !.currentList = <<>>, !.listLines = <<>>,
            !.currentListType = null]

\* blocks.push(block), then the loop's i++.
pushBlock(f, block) ==
  [f EXCEPT !.blocks = Append(f.blocks, block),
            !.blockLines = Append(f.blockLines, f.i),
            !.i = f.i + 1]

\* currentListType = type; currentList.push(block), then the loop's i++.
\* pushListItem as it would be if it put the item before the buffered ones.
pushListItemFirst(f, type, block) ==
  [f EXCEPT !.currentListType = type,
            !.currentList = <<block>> \o f.currentList,
            !.listLines = Append(f.listLines, f.i),
            !.i = f.i + 1]

pushListItem(f, type, block) ==
  [f EXCEPT !.currentListType = type,
            !.currentList = Append(f.currentList, block),
            !.listLines = Append(f.listLines, f.i),
            !.i = f.i + 1]

\* One iteration of the line loop, up to the entry of the fence's inner loop.
m2bIteration(f) ==
  LET line == At(f.lines, f.i)
      g == IF needFlush(f.currentListType, line) THEN flushList(f) ELSE f
  IN IF trim(line) = <<>> THEN [g EXCEPT !.i = g.i + 1]
     ELSE IF startsWith(line, <<"#", " ">>)
     THEN pushBlock(g, createHeading(1, sliceFrom(line, 2)))
     ELSE IF startsWith(line, <<"#", "#", " ">>)
     THEN pushBlock(g, createHeading(2, sliceFrom(line, 3)))
     ELSE IF startsWith(line, <<"#", "#", "#", " ">>)
     THEN pushBlock(g, createHeading(3, sliceFrom(line, 4)))
     ELSE IF startsWith(line, Fence)
     THEN [g EXCEPT !.language = trim(sliceFrom(line, 3)),
                    !.codeLines = <<>>, !.fenceLine = g.i,
                    !.i = g.i + 1, !.pc = "while"]
     ELSE IF matchBulleted(line)
     THEN pushListItem(g, "bulleted",
                       createBulletedListItem(sliceFrom(line, 2)))
     ELSE IF matchNumbered(line)
     THEN pushListItem(g, "numbered",
                       createNumberedListItem(
                         sliceFrom(line, numberedPrefix(line))))
     ELSE IF startsWith(line, <<">", " ">>)
     THEN pushBlock(g, createQuote(sliceFrom(line, 2)))
     ELSE IF matchDivider(line)
     THEN pushBlock(g, createDivider)
     ELSE pushBlock(g, createParagraph(line))

\* fenceContinues as it would be if a blank line also ended a fenced run.
fenceContinuesNonBlank(f) ==
  /\ f.i < Len(f.lines)
  /\ ~startsWith(At(f.lines, f.i), Fence)
  /\ trim(At(f.lines, f.i)) # <<>>

\* while (i < lines.length && !lines[i].startsWith('```'))
fenceContinues(f) ==
  f.i < Len(f.lines) /\ ~startsWith(At(f.lines, f.i), Fence)

\* m2bFenceIteration as it would be if it moved on by two lines.
m2bFenceIterationByTwo(f) ==
  [f EXCEPT !.codeLines = Append(f.codeLines, At(f.lines, f.i)),
            !.i = f.i + 2]

\* One iteration of the inner loop of a fenced run.
m2bFenceIteration(f) ==
  [f EXCEPT !.codeLines = Append(f.codeLines, At(f.lines, f.i)),
            !.i = f.i + 1]

\* m2bFenceExit as it would be if the closing fence were not skipped.
m2bFenceExitNoSkip(f) ==
  [f EXCEPT !.blocks =
              Append(f.blocks, createCodeBlock(join(f.codeLines, NL),
                                               f.language)),
            !.blockLines = Append(f.blockLines, f.fenceLine),
            !.pc = "for"]

\* The exit of the inner loop: the code block, then the outer loop's i++.
m2bFenceExit(f) ==
  [f EXCEPT !.blocks =
              Append(f.blocks, createCodeBlock(join(f.codeLines, NL),
                                               f.language)),
            !.blockLines = Append(f.blockLines, f.fenceLine),
            !.i = f.i + 1, !.pc = "for"]

\* After the loop: if (currentList.length > 0) blocks.push(...currentList).
m2bReturn(f) ==
  [(IF Len(f.currentList) > 0
    THEN [f EXCEPT !.blocks = f.blocks \o f.currentList,
                   !.blockLines = f.blockLines \o f.listLines]
    ELSE f) EXCEPT !.pc = "done"]

m2bStep(f) ==
  IF f.pc = "while"
  THEN (IF fenceContinues(f) THEN m2bFenceIteration(f) ELSE m2bFenceExit(f))
  ELSE (IF f.i < Len(f.lines) THEN m2bIteration(f) ELSE m2bReturn(f))

RECURSIVE m2bRun(_)
m2bRun(f) == IF f.pc = "done" THEN f ELSE m2bRun(m2bStep(f))

markdownToBlocks(markdown) == m2bRun(m2bEntry(markdown)).blocks

(***************************************************************************)
(* blocksToMarkdown.                                                       *)
(***************************************************************************)
wrapBold(text, annotations) ==
  IF annotations.bold THEN <<"*", "*">> \o text \o <<"*", "*">> ELSE text

wrapItalic(text, annotations) ==
  IF annotations.italic THEN <<"*">> \o text \o <<"*">> ELSE text

wrapCode(text, annotations) ==
  IF annotations.code THEN <<BT>> \o text \o <<BT>> ELSE text

wrapStrikethrough(text, annotations) ==
  IF annotations.strikethrough
  THEN <<"~", "~">> \o text \o <<"~", "~">>
  ELSE text

wrapLink(text, link) ==
  IF link # nullLink
  THEN <<"[">> \o text \o <<"]", "(">> \o link.url \o <<")">>
  ELSE text

\* spanToMarkdown as it would be if bold were applied last of the styles.
spanToMarkdownBoldLast(rt) ==
  wrapLink(
    wrapBold(
      wrapItalic(
        wrapCode(
          wrapStrikethrough(rt.text.content, rt.annotations),
          rt.annotations),
        rt.annotations),
      rt.annotations),
    rt.text.link)

\* The callback of richText.map in richTextToMarkdown.
spanToMarkdown(rt) ==
  wrapLink(
    wrapStrikethrough(
      wrapCode(
        wrapItalic(
          wrapBold(rt.text.content, rt.annotations),
          rt.annotations),
        rt.annotations),
      rt.annotations),
    rt.text.link)

\* A value that is no array in a position that may hold an array: an
\* array of one element that no array holds.
notArray(kind) == <<[notArray |-> kind]>>

isArray(v) == ~(Len(v) = 1 /\ "notArray" \in DOMAIN v[1])

\* !v for a value in such a position: an array is never falsy.
falsyArray(v) ==
  /\ ~isArray(v)
  /\ v[1].notArray \in {"undefined", "null", "empty string"}

\* obj[name] where an array is expected and where an object is:
\* undefined where the object has no such property.
propArray(obj, name) ==
  IF name \in DOMAIN obj THEN obj[name] ELSE notArray("undefined")

propObject(obj, name) ==
  IF name \in DOMAIN obj THEN obj[name] ELSE jsOther("undefined")

\* An object position holds null or undefined: !v there, and reading a
\* property of it raises.
nullish(v) == v = jsOther("null") \/ v = jsOther("undefined")

\* What a statement that raises leaves in place of a string and in place of
\* an array of lines.
TypeError == <<"TypeError">>
TypeErrorLines == <<TypeError>>

\* The span as the callback reads it: rt.text.content || '',
\* rt.annotations || {}, and a link that is missing is no link.
spanRead(rt) ==
  [text |->
     [content |-> IF "content" \in DOMAIN rt.text THEN rt.text.content
                  ELSE <<>>,
      link |-> IF "link" \in DOMAIN rt.text THEN rt.text.link ELSE nullLink],
   annotations |-> IF nullish(propObject(rt, "annotations"))
                   THEN NoAnnotations
                   ELSE rt.annotations]

\* The callback with its guard: if (!rt || !rt.text) return ''.
mapCallback(rt) ==
  IF nullish(rt) \/ nullish(propObject(rt, "text")) THEN <<>>
  ELSE spanToMarkdown(spanRead(rt))

\* richTextToMarkdown as it would be without its first guard: map is read
\* of a value that is no array.
richTextToMarkdownUnguarded(richText) ==
  IF ~isArray(richText) THEN TypeError
  ELSE concat([k \in 1..Len(richText) |-> mapCallback(richText[k])])

\* if (!richText || !Array.isArray(richText)) return ''
richTextToMarkdown(richText) ==
  IF falsyArray(richText) \/ ~isArray(richText) THEN <<>>
  ELSE concat([k \in 1..Len(richText) |-> mapCallback(richText[k])])

\* `prefix${richTextToMarkdown(payload.rich_text)}`: reading rich_text of a
\* payload that is not there raises.
textLine(prefix, payload) ==
  IF nullish(payload) THEN TypeErrorLines
  ELSE LET text == richTextToMarkdown(propArray(payload, "rich_text"))
       IN IF text = TypeError THEN TypeErrorLines ELSE << prefix \o text >>

\* The text line of a code block: lines.push(...(block.code.rich_text)).
codeText(block) == richTextToMarkdown(propArray(block.code, "rich_text"))

\* block.code.language || ''
codeLanguage(block) ==
  IF "language" \in DOMAIN block.code THEN block.code.language ELSE <<>>

\* The lines one block adds to lines[] in the switch of blocksToMarkdown, or
\* TypeErrorLines where the case raises.
blockLinesOf(block) ==
  CASE block.type = "heading_1" ->
         textLine(<<"#", " ">>, propObject(block, "heading_1"))
    [] block.type = "heading_2" ->
         textLine(<<"#", "#", " ">>, propObject(block, "heading_2"))
    [] block.type = "heading_3" ->
         textLine(<<"#", "#", "#", " ">>, propObject(block, "heading_3"))
    [] block.type = "paragraph" ->
         textLine(<<>>, propObject(block, "paragraph"))
    [] block.type = "bulleted_list_item" ->
         textLine(<<"-", " ">>, propObject(block, "bulleted_list_item"))
    [] block.type = "numbered_list_item" ->
         textLine(<<"1", ".", " ">>, propObject(block, "numbered_list_item"))
    [] block.type = "code" ->
         IF nullish(propObject(block, "code")) THEN TypeErrorLines
         ELSE IF codeText(block) = TypeError THEN TypeErrorLines
         ELSE << Fence \o codeLanguage(block), codeText(block), Fence >>
    [] block.type = "quote" ->
         textLine(<<">", " ">>, propObject(block, "quote"))
    [] block.type = "divider" -> << <<"-", "-", "-">> >>
    [] OTHER -> <<>>

\* The frame of blocksToMarkdown(blocks): k is the position of the for-of loop.
b2mEntry(blocks) ==
  [blocks |-> blocks, k |-> 0, lines |-> <<>>, result |-> <<>>, pc |-> "for"]

\* b2mIteration as it would be if a block of an unknown type left an empty
\* line.
b2mIterationEmptyLine(f) ==
  LET ls == blockLinesOf(At(f.blocks, f.k))
  IN [f EXCEPT !.lines = f.lines \o (IF ls = <<>> THEN << <<>> >> ELSE ls),
               !.k = f.k + 1]

\* One turn of for (const block of blocks); a case that raises ends the
\* call.
b2mIteration(f) ==
  LET ls == blockLinesOf(At(f.blocks, f.k))
  IN IF ls = TypeErrorLines THEN [f EXCEPT !.pc = "threw"]
     ELSE [f EXCEPT !.lines = f.lines \o ls, !.k = f.k + 1]

\* b2mReturn as it would be if every line ended with a newline.
b2mReturnTerminated(f) ==
  [f EXCEPT !.result = concat([n \in 1..Len(f.lines) |-> f.lines[n] \o <<NL>>]),
            !.pc = "done"]

b2mReturn(f) == [f EXCEPT !.result = join(f.lines, NL), !.pc = "done"]

b2mStep(f) == IF f.k < Len(f.blocks) THEN b2mIteration(f) ELSE b2mReturn(f)

RECURSIVE b2mRun(_)
b2mRun(f) == IF f.pc # "for" THEN f ELSE b2mRun(b2mStep(f))

blocksToMarkdown(blocks) == b2mRun(b2mEntry(blocks)).result

(***************************************************************************)
(* contentConvert (src/tools/composite/content.ts).  A JavaScript value is *)
(* a record of its kind and, for a string or an array, its characters or   *)
(* elements.  The frame of a call holds its input, the error thrown inside *)
(* withErrorHandling and the value the promise is fulfilled with.          *)
(***************************************************************************)

\* null as an element of an array of blocks, the object {} and the object
\* {"type": "divider"} as blocks.
nullElement == [null |-> TRUE]
emptyObject == [type |-> undefined]
dividerObject == [type |-> "divider"]

\* The JSON texts given to contentConvert.
JSONEmptyArray == <<"[", "]">>
JSONSpacedArray == <<" ", "[", " ", "]", NL>>
JSONObjectArray == <<"[", "{", "}", "]">>
JSONDividerArray ==
  <<"[", "{", "\"", "t", "y", "p", "e", "\"", ":", "\"", "d", "i", "v",
    "i", "d", "e", "r", "\"", "}", "]">>
JSONTwoBlocks ==
  <<"[", "{", "\"", "t", "y", "p", "e", "\"", ":", "\"", "d", "i", "v",
    "i", "d", "e", "r", "\"", "}", ",", "{", "}", "]">>
JSONNullArray == <<"[", "n", "u", "l", "l", "]">>
JSONObject == <<"{", "}">>
JSONNumber == <<"1">>
JSONNull == <<"n", "u", "l", "l">>
JSONString == <<"\"", "a", "\"">>

\* Strings that are no JSON text.
NotJSON ==
  { <<>>, <<"[">>, <<"[", "{", "]">>, <<"[", "]", "]">>, <<"[", ",", "]">>,
    <<"#", " ", "a">>, <<"-", " ", "a">>, <<"a">> }

\* JSON.parse on the strings above: the value decoded, or threw for a
\* SyntaxError.
returned(value) == [threw |-> FALSE, value |-> value]

JSONparse(s) ==
  CASE s = JSONEmptyArray -> returned(jsArray(<<>>))
    [] s = JSONSpacedArray -> returned(jsArray(<<>>))
    [] s = JSONObjectArray -> returned(jsArray(<<emptyObject>>))
    [] s = JSONDividerArray -> returned(jsArray(<<dividerObject>>))
    [] s = JSONTwoBlocks -> returned(jsArray(<<dividerObject, emptyObject>>))
    [] s = JSONNullArray -> returned(jsArray(<<nullElement>>))
    [] s = JSONObject -> returned(jsOther("object"))
    [] s = JSONNumber -> returned(jsOther("number"))
    [] s = JSONNull -> returned(jsOther("null"))
    [] s = JSONString -> returned(jsString(<<"a">>))
    [] OTHER -> [threw |-> TRUE, value |-> jsOther("undefined")]

noValue == [none |-> TRUE]

\* The messages of the errors contentConvert throws.
MustBeString == <<"Content must be a string for markdown-to-blocks">>
MustBeJSON ==
  <<"Content must be a valid JSON array or array object for blocks-to-markdown">>
MustBeArray == <<"Content must be an array for blocks-to-markdown">>

ccEntry(input) ==
  [input |-> input, pc |-> "switch", error |-> noValue, result |-> noValue]

\* throw new Error(message): control goes to the catch of withErrorHandling.
ccThrow(f, name, message) ==
  [f EXCEPT !.pc = "catch", !.error = [name |-> name, message |-> message]]

ccReturn(f, result) == [f EXCEPT !.pc = "fulfilled", !.result = result]

\* case 'markdown-to-blocks'
ccMarkdownToBlocks(f) ==
  IF f.input.content.kind # "string"
  THEN ccThrow(f, "Error", MustBeString)
  ELSE LET blocks == markdownToBlocks(f.input.content.value)
       IN ccReturn(f, [direction |-> f.input.direction,
                       block_count |-> Len(blocks),
                       blocks |-> blocks])

\* The content of the blocks-to-markdown case as it would be if a string
\* that is no JSON text were taken for the empty array.
parsedContentLenient(content) ==
  IF content.kind = "string"
  THEN (IF JSONparse(content.value).threw THEN returned(jsArray(<<>>))
        ELSE JSONparse(content.value))
  ELSE returned(content)

\* The content of the blocks-to-markdown case: a string is decoded.
parsedContent(content) ==
  IF content.kind = "string" THEN JSONparse(content.value)
  ELSE returned(content)

\* case 'blocks-to-markdown'.  blocksToMarkdown reads block.type of each
\* element, which throws a TypeError on null.
ccBlocksToMarkdown(f) ==
  LET parsed == parsedContent(f.input.content)
      content == parsed.value
  IN IF parsed.threw
     THEN ccThrow(f, "Error", MustBeJSON)
     ELSE IF content.kind # "array"
     THEN ccThrow(f, "Error", MustBeArray)
     ELSE IF \E k \in 1..Len(content.value) : content.value[k] = nullElement
     THEN ccThrow(f, "TypeError", <<"Cannot read properties of null">>)
     ELSE LET markdown == blocksToMarkdown(content.value)
          IN ccReturn(f, [direction |-> f.input.direction,
                          char_count |-> Len(markdown),
                          markdown |-> markdown])

\* default
ccDefault(f) ==
  ccThrow(f, "Error", <<"Unsupported direction: ", f.input.direction>>)

\* enhanceError of an error with no code and no network message.
enhanceError(error) ==
  [name |-> "NotionMCPError",
   message |-> error.message,
   code |-> "UNKNOWN_ERROR",
   suggestion |-> "Please check your request and try again"]

\* The catch of withErrorHandling: the promise is rejected.
ccCatch(f) == [f EXCEPT !.pc = "rejected", !.error = enhanceError(f.error)]

ccStep(f) ==
  IF f.pc = "catch" THEN ccCatch(f)
  ELSE IF f.input.direction = "markdown-to-blocks" THEN ccMarkdownToBlocks(f)
  ELSE IF f.input.direction = "blocks-to-markdown" THEN ccBlocksToMarkdown(f)
  ELSE ccDefault(f)

RECURSIVE ccRun(_)
ccRun(f) ==
  IF f.pc \in {"fulfilled", "rejected"} THEN f ELSE ccRun(ccStep(f))

contentConvert(input) == ccRun(ccEntry(input))

(***************************************************************************)
(* Inputs.                                                                 *)
(***************************************************************************)
\* The characters of single-line documents: every character a line rule of
\* markdownToBlocks tests, two inline markers and a plain letter.
LineChars == {"#", " ", TAB, BT, "-", "*", "1", ".", ">", "a"}

\* The lines of multi-line documents: one or two of each class of line.
DocLines ==
  { <<>>,
    <<" ">>,
    <<"#", " ", "a">>,
    <<"-", " ", "a">>,
    <<"*", " ", "b">>,
    <<"1", ".", " ", "a">>,
    <<">", " ", "a">>,
    <<"-", "-", "-">>,
    <<"a">>,
    <<"*", "a", "*">>,
    Fence,
    Fence \o <<"a">> }

\* Documents around one fenced run: an optional list item, an opening fence,
\* interior lines, a closing fence and an optional line after it.
InteriorLines ==
  {<<>>, <<" ">>, <<"#", " ", "a">>, <<"-", " ", "a">>, <<"*", "a", "*">>}
AfterLines ==
  {<<>>, <<"#", " ", "a">>, <<"1", ".", " ", "a">>, <<"a">>, Fence}
FencedDocuments ==
  {join(before \o <<opener>> \o interior \o <<closer>> \o after, NL) :
     before \in Arrays({<<"-", " ", "a">>}, 0, 1),
     opener \in {Fence, Fence \o <<"p", "y">>},
     interior \in Arrays(InteriorLines, 0, MaxInterior),
     closer \in {Fence, Fence \o <<"a">>},
     after \in Arrays(AfterLines, 0, 1)}

\* The characters of the lines given to parseRichText alone.
RichChars == {"*", BT, "~", "[", "]", "(", ")", "a"}

\* Longer lines: the examples of the design notes, and text after a link.
LongTexts ==
  { <<"*", "*", "a", " ", "*", "b", "*", "*", " ", "c", "*">>,
    <<"*", "*", "b", "*", "*", " ", "a", " ", "*", "i", "*">>,
    <<"[", "*", "a", "]", "(", "u", ")", "b", "*", "c">>,
    <<"~", "~", "a", "[", "b", "]", "(", "~", "~", ")", "c", "~", "~", "d">>,
    <<"[", "a", "]", " ", "[", "b", "]", "(", "u", ")">> }

RichTexts == Strings(RichChars, MaxTextLen) \cup LongTexts

\* Documents that are one list: a run of bulleted lines, or a run of numbered
\* lines with differing numbers.
BulletedLines ==
  { <<"-", " ", "a">>, <<"-", " ", "b">>, <<"-", " ", "*", "c">> }

NumberedLines == { <<"1", ".", " ", "a">>, <<"2", ".", " ", "b">> }

ListRuns ==
  {join(d, NL) : d \in Arrays(BulletedLines, 1, MaxRun)
                        \cup Arrays(NumberedLines, 1, MaxRun)}

\* The documents given to markdownToBlocks: every short line, the lines of
\* inline markers, every short sequence of the lines of DocLines, and the
\* documents around a fenced run, and the list runs.
Documents ==
  Strings(LineChars, MaxLineLen)
    \cup RichTexts
    \cup {join(d, NL) : d \in Arrays(DocLines, 2, MaxLines)}
    \cup FencedDocuments
    \cup ListRuns

Booleans == {TRUE, FALSE}

\* The spans given to blocksToMarkdown: every annotation set, with and
\* without a link.
Spans ==
  {[type |-> "text",
    text |-> [content |-> <<"x">>, link |-> l],
    annotations |->
      [bold |-> b, italic |-> i, strikethrough |-> s, underline |-> FALSE,
       code |-> c, color |-> "default"]] :
     b \in Booleans, i \in Booleans, c \in Booleans, s \in Booleans,
     l \in {nullLink, [url |-> <<"u">>]}}

styled(type, richText) ==
  [object |-> "block", type |-> type]
    @@ (type :> [rich_text |-> richText, color |-> "default"])

codeBlock(richText, language) ==
  [object |-> "block", type |-> "code",
   code |-> [rich_text |-> richText, language |-> language]]

\* One block of every annotation set, as a paragraph and as a code block.
StyledBlocks ==
  {styled("paragraph", <<sp>>) : sp \in Spans}
    \cup {codeBlock(<<sp>>, <<"j">>) : sp \in Spans}

\* The blocks of longer sequences: the variants markdownToBlocks produces,
\* a block of a type blocksToMarkdown does not know, a code block whose
\* span is formatted.
CoreBlocks ==
  { createHeading(1, <<"T">>),
    createParagraph(<<"*", "*", "a", "*", "*", "b">>),
    createBulletedListItem(<<"a">>),
    createNumberedListItem(<<"a">>),
    createQuote(<<"q">>),
    createCodeBlock(<<"c", NL, "*", "d", "*">>, <<"j">>),
    createCodeBlock(<<>>, <<>>),
    createDivider,
    styled("table", <<>>),
    codeBlock(<<createRichText(<<"c">>,
                  [NoAnnotations EXCEPT !.bold = TRUE])>>, <<>>) }

BlockSequences ==
  Arrays(CoreBlocks, 0, MaxBlocks) \cup {<<b>> : b \in StyledBlocks}

(***************************************************************************)
(* pagesEdit called with prepend_content and neither content nor           *)
(* append_content, title or properties: the branch that puts new content   *)
(* before the content of the page.  The field `children' of the frame is   *)
(* the page as the workspace keeps it, a list of stored blocks, each a     *)
(* block under an id; `nextId' is the id the workspace gives the next      *)
(* block it stores.  Every call of the API is one step, and is taken to    *)
(* succeed.  `before' is a ghost: the children at the call.                *)
(***************************************************************************)
stored(id, block) == [id |-> id, block |-> block]

blocksOf(children) == [k \in 1..Len(children) |-> children[k].block]

\* notion.blocks.delete({ block_id }): the page without the block of that id.
blocksDelete(children, id) == SelectSeq(children, LAMBDA c : c.id # id)

\* notion.blocks.children.append({ block_id, children: blocks }): the blocks
\* stored after the children there are, in the order given.
childrenAppend(children, nextId, blocks) ==
  children \o [k \in 1..Len(blocks) |-> stored(nextId + k - 1, blocks[k])]

peEntry(children, prepend_content) ==
  [children |-> children,
   nextId |-> Len(children) + 1,
   prepend_content |-> prepend_content,
   existingBlocks |-> <<>>,
   existingMarkdown |-> <<>>,
   k |-> 0,
   newBlocks |-> <<>>,
   recreatedBlocks |-> <<>>,
   result |-> noValue,
   before |-> children,
   pc |-> "list"]

\* const { results: existingBlocks } = await notion.blocks.children.list(..)
\* const existingMarkdown = blocksToMarkdown(existingBlocks)
peList(f) ==
  [f EXCEPT !.existingBlocks = f.children,
            !.existingMarkdown = blocksToMarkdown(blocksOf(f.children)),
            !.k = 0,
            !.pc = "delete"]

\* One iteration of for (const block of existingBlocks):
\* await notion.blocks.delete({ block_id: block.id })
peDelete(f) ==
  [f EXCEPT !.children = blocksDelete(f.children, At(f.existingBlocks, f.k).id),
            !.k = f.k + 1]

\* const newBlocks = markdownToBlocks(input.prepend_content)
\* await notion.blocks.children.append({ .., children: newBlocks })
\* if (existingMarkdown.trim())
peAppendNew(f) ==
  LET newBlocks == markdownToBlocks(f.prepend_content)
  IN [f EXCEPT !.newBlocks = newBlocks,
               !.children = childrenAppend(f.children, f.nextId, newBlocks),
               !.nextId = f.nextId + Len(newBlocks),
               !.pc = IF trim(f.existingMarkdown) # <<>>
                      THEN "recreate" ELSE "return"]

\* const recreatedBlocks = markdownToBlocks(existingMarkdown)
\* await notion.blocks.children.append({ .., children: recreatedBlocks })
peRecreate(f) ==
  LET recreatedBlocks == markdownToBlocks(f.existingMarkdown)
  IN [f EXCEPT !.recreatedBlocks = recreatedBlocks,
               !.children =
                 childrenAppend(f.children, f.nextId, recreatedBlocks),
               !.nextId = f.nextId + Len(recreatedBlocks),
               !.pc = "return"]

\* return { page_id: input.page_id, updated: true }
peReturn(f) == [f EXCEPT !.result = [updated |-> TRUE], !.pc = "done"]

(***************************************************************************)
(* autoPaginate.  fetchFn is a listing of the workspace: `pages' are the   *)
(* results of its pages in order, and `last' is the next_cursor of the     *)
(* last page, null where the listing ends or the cursor of a page where    *)
(* it does not.  A cursor is an opaque string, here the number of the      *)
(* page it stands for.  An option that may be left out is an array of at   *)
(* most one value.  `calls' and `responses' are ghosts: the arguments of   *)
(* the fetches and what they returned, in order.                           *)
(***************************************************************************)
cursorOf(k) == ToString(k)

\* fetchFn(cursor, pageSize): the page the cursor stands for, the first one
\* for undefined.
fetchFn(listing, cursor, pageSize) ==
  LET k == IF cursor = undefined THEN 1
           ELSE CHOOSE p \in 1..Len(listing.pages) : cursorOf(p) = cursor
      next_cursor == IF k < Len(listing.pages) THEN cursorOf(k + 1)
                     ELSE listing.last
  IN [results |-> listing.pages[k],
      next_cursor |-> next_cursor,
      has_more |-> next_cursor # null]

\* const { maxPages = 0, pageSize = 100 } = options
optionOr(option, default) == IF option = <<>> THEN default ELSE option[1]

\* cursor || undefined
orUndefined(cursor) ==
  IF cursor = null \/ cursor = "" THEN undefined ELSE cursor

apEntry(listing, options) ==
  [fetchFn |-> listing,
   maxPages |-> optionOr(options.maxPages, 0),
   pageSize |-> optionOr(options.pageSize, 100),
   allResults |-> <<>>,
   cursor |-> null,
   pageCount |-> 0,
   calls |-> <<>>,
   responses |-> <<>>,
   result |-> <<>>,
   pc |-> "do"]

\* The body of the loop as it would be if the cursor of the response were
\* not kept.
apIterationNoCursor(f) ==
  LET response == fetchFn(f.fetchFn, orUndefined(f.cursor), f.pageSize)
      pageCount == f.pageCount + 1
  IN [f EXCEPT !.calls = Append(@, [cursor |-> orUndefined(f.cursor),
                                    pageSize |-> f.pageSize]),
               !.responses = Append(@, response),
               !.allResults = @ \o response.results,
               !.pageCount = pageCount,
               !.pc = IF f.maxPages > 0 /\ pageCount >= f.maxPages
                      THEN "return"
                      ELSE IF response.next_cursor # null THEN "do"
                      ELSE "return"]

\* One turn of do { .. } while (cursor !== null), the break included.
apIteration(f) ==
  LET response == fetchFn(f.fetchFn, orUndefined(f.cursor), f.pageSize)
      pageCount == f.pageCount + 1
  IN [f EXCEPT !.calls = Append(@, [cursor |-> orUndefined(f.cursor),
                                    pageSize |-> f.pageSize]),
               !.responses = Append(@, response),
               !.allResults = @ \o response.results,
               !.cursor = response.next_cursor,
               !.pageCount = pageCount,
               !.pc = IF f.maxPages > 0 /\ pageCount >= f.maxPages
                      THEN "return"
                      ELSE IF response.next_cursor # null THEN "do"
                      ELSE "return"]

\* return allResults
apReturn(f) == [f EXCEPT !.result = f.allResults, !.pc = "done"]

(***************************************************************************)
(* The update action of the blocks tool.  `stored' is the block the        *)
(* workspace holds under input.block_id, and `updates' the requests        *)
(* notion.blocks.update has received, in order.  input.content, which may  *)
(* be left out, is an array of at most one string.  Every call of the API  *)
(* is one step, and is taken to succeed.                                   *)
(***************************************************************************)
\* The types whose rich text the update action replaces.
UpdatableTypes ==
  {"paragraph", "heading_1", "heading_2", "heading_3",
   "bulleted_list_item", "numbered_list_item", "quote"}

\* throw new NotionMCPError(message, code, suggestion)
buThrow(f, message, code, suggestion) ==
  [f EXCEPT !.pc = "catch",
            !.error = [name |-> "NotionMCPError", message |-> message,
                       code |-> code, suggestion |-> suggestion]]

buEntry(block, content) ==
  [stored |-> block,
   input |-> [action |-> "update", block_id |-> <<"i", "d">>,
              content |-> content],
   blockType |-> undefined,
   newBlocks |-> <<>>,
   updatePayload |-> noValue,
   updates |-> <<>>,
   result |-> noValue,
   error |-> noValue,
   pc |-> "update"]

\* case 'update': if (!input.content) throw ..
buCase(f) ==
  IF f.input.content = <<>> \/ f.input.content = << <<>> >>
  THEN buThrow(f, "content required for update", "VALIDATION_ERROR",
               "Provide markdown content")
  ELSE [f EXCEPT !.pc = "retrieve"]

\* (newContent as any)[blockType]?.rich_text || []
richTextUnder(newContent, blockType) ==
  IF blockType \in DOMAIN newContent
  THEN newContent[blockType].rich_text
  ELSE <<>>

\* const block = await notion.blocks.retrieve(..), and the statements up
\* to the call of notion.blocks.update.
buRetrieve(f) ==
  LET blockType == f.stored.type
      newBlocks == markdownToBlocks(f.input.content[1])
  IN IF Len(newBlocks) = 0
     THEN buThrow([f EXCEPT !.blockType = blockType],
                  "Content must produce at least one block",
                  "VALIDATION_ERROR", "Invalid markdown")
     ELSE IF blockType \in UpdatableTypes
     THEN [f EXCEPT !.blockType = blockType,
                    !.newBlocks = newBlocks,
                    !.updatePayload =
                      [type |-> blockType,
                       rich_text |->
                         richTextUnder(At(newBlocks, 0), blockType)],
                    !.pc = "send"]
     ELSE buThrow([f EXCEPT !.blockType = blockType,
                            !.newBlocks = newBlocks],
                  <<"Block type '", blockType, "' cannot be updated">>,
                  "VALIDATION_ERROR", "Only text blocks can be updated")

\* await notion.blocks.update({ block_id, ...updatePayload }) and the return.
buSend(f) ==
  [f EXCEPT !.updates = Append(@, [block_id |-> f.input.block_id]
                                    @@ f.updatePayload),
            !.result = [action |-> "update", block_id |-> f.input.block_id,
                        type |-> f.blockType, updated |-> TRUE],
            !.pc = "fulfilled"]

\* code.toUpperCase() on the codes that are thrown.
toUpperCase(code) ==
  CASE code = "validation_error" -> "VALIDATION_ERROR"
    [] code = "VALIDATION_ERROR" -> "VALIDATION_ERROR"
    [] OTHER -> code

\* The codes of the API that handleNotionError knows, and what it makes of
\* them.
NotionCodes ==
  [unauthorized |-> "UNAUTHORIZED",
   restricted_resource |-> "RESTRICTED_RESOURCE",
   object_not_found |-> "NOT_FOUND",
   validation_error |-> "VALIDATION_ERROR",
   rate_limited |-> "RATE_LIMITED",
   conflict_error |-> "CONFLICT",
   service_unavailable |-> "SERVICE_UNAVAILABLE"]

handleNotionError(error) ==
  IF error.code \in DOMAIN NotionCodes
  THEN [name |-> "NotionMCPError",
        message |-> <<"message for ", error.code>>,
        code |-> NotionCodes[error.code],
        suggestion |-> <<"suggestion for ", error.code>>]
  ELSE [name |-> "NotionMCPError",
        message |-> error.message,
        code |-> toUpperCase(error.code),
        suggestion |->
          "Check the Notion API documentation for this error code"]

\* The catch of withErrorHandling around the tool: enhanceError of an error
\* that has a code.
buCatch(f) ==
  [f EXCEPT !.pc = "rejected", !.error = handleNotionError(f.error)]

(***************************************************************************)
(* The frames at rest, and the first three specifications: one call of     *)
(* markdownToBlocks (Spec), of parseRichText (SpecRich) and of             *)
(* blocksToMarkdown (SpecRender), each on any of its inputs.               *)
(***************************************************************************)
m2bIdle == [m2bEntry(<<>>) EXCEPT !.pc = "idle"]
prtIdle == [prtEntry(<<>>) EXCEPT !.pc = "idle"]
b2mIdle == [b2mEntry(<<>>) EXCEPT !.pc = "idle"]
eptIdle == [eptEntry(<<>>) EXCEPT !.pc = "idle"]
peIdle == [peEntry(<<>>, <<>>) EXCEPT !.pc = "idle"]
buIdle == [buEntry(createDivider, <<>>) EXCEPT !.pc = "idle"]
apIdle ==
  [apEntry([pages |-> <<>>, last |-> null],
           [maxPages |-> <<>>, pageSize |-> <<>>]) EXCEPT !.pc = "idle"]
ccIdle ==
  [ccEntry([direction |-> undefined, content |-> jsOther("undefined")])
     EXCEPT !.pc = "idle"]

Init ==
  /\ m2b \in {m2bEntry(markdown) : markdown \in Documents}
  /\ prt = prtIdle
  /\ b2m = b2mIdle
  /\ cc = ccIdle
  /\ ept = eptIdle
  /\ pe = peIdle
  /\ ap = apIdle
  /\ bu = buIdle

Iteration ==
  /\ m2b.pc = "for"
  /\ m2b.i < Len(m2b.lines)
  /\ m2b' = m2bIteration(m2b)
  /\ UNCHANGED <<prt, b2m, cc, ept, pe, ap, bu>>

FenceIteration ==
  /\ m2b.pc = "while"
  /\ fenceContinues(m2b)
  /\ m2b' = m2bFenceIteration(m2b)
  /\ UNCHANGED <<prt, b2m, cc, ept, pe, ap, bu>>

FenceExit ==
  /\ m2b.pc = "while"
  /\ ~fenceContinues(m2b)
  /\ m2b' = m2bFenceExit(m2b)
  /\ UNCHANGED <<prt, b2m, cc, ept, pe, ap, bu>>

Return ==
  /\ m2b.pc = "for"
  /\ ~(m2b.i < Len(m2b.lines))
  /\ m2b' = m2bReturn(m2b)
  /\ UNCHANGED <<prt, b2m, cc, ept, pe, ap, bu>>

Next == Iteration \/ FenceIteration \/ FenceExit \/ Return

Spec == Init /\ [][Next]_vars

InitRich ==
  /\ prt \in {prtEntry(text) : text \in RichTexts}
  /\ m2b = m2bIdle
  /\ b2m = b2mIdle
  /\ cc = ccIdle
  /\ ept = eptIdle
  /\ pe = peIdle
  /\ ap = apIdle
  /\ bu = buIdle

RichIteration ==
  /\ prt.pc = "for"
  /\ prt.i < Len(prt.text)
  /\ prt' = prtIteration(prt)
  /\ UNCHANGED <<m2b, b2m, cc, ept, pe, ap, bu>>

RichReturn ==
  /\ prt.pc = "for"
  /\ ~(prt.i < Len(prt.text))
  /\ prt' = prtReturn(prt)
  /\ UNCHANGED <<m2b, b2m, cc, ept, pe, ap, bu>>

NextRich == RichIteration \/ RichReturn

SpecRich == InitRich /\ [][NextRich]_vars

InitRender ==
  /\ b2m \in {b2mEntry(blocks) : blocks \in BlockSequences}
  /\ m2b = m2bIdle
  /\ prt = prtIdle
  /\ cc = ccIdle
  /\ ept = eptIdle
  /\ pe = peIdle
  /\ ap = apIdle
  /\ bu = buIdle

RenderIteration ==
  /\ b2m.pc = "for"
  /\ b2m.k < Len(b2m.blocks)
  /\ b2m' = b2mIteration(b2m)
  /\ UNCHANGED <<m2b, prt, cc, ept, pe, ap, bu>>

RenderReturn ==
  /\ b2m.pc = "for"
  /\ ~(b2m.k < Len(b2m.blocks))
  /\ b2m' = b2mReturn(b2m)
  /\ UNCHANGED <<m2b, prt, cc, ept, pe, ap, bu>>

NextRender == RenderIteration \/ RenderReturn

SpecRender == InitRender /\ [][NextRender]_vars

(***************************************************************************)
(* Calls one after another and interleaved (specification SpecCalls): each *)
(* function is called again and again, and the three run side by side.     *)
(* Every local of a call is declared inside its function, so that a call   *)
(* starts on a fresh frame whatever the frame the call before it left.     *)
(* The field `previous' of a frame is a ghost: the argument of the call     *)
(* before.                                                                 *)
(***************************************************************************)
\* A call of markdownToBlocks as it would be if the list buffer were kept
\* from one call to the next.
m2bCallSharedList(old, markdown) ==
  [previous |-> old.markdown]
    @@ [m2bEntry(markdown) EXCEPT !.currentList = old.currentList,
                                  !.currentListType = old.currentListType,
                                  !.listLines = old.listLines]

m2bCall(old, markdown) == [previous |-> old.markdown] @@ m2bEntry(markdown)

prtCall(old, text) == [previous |-> old.text] @@ prtEntry(text)

b2mCall(old, blocks) == [previous |-> old.blocks] @@ b2mEntry(blocks)

\* The arguments of the calls: documents that end inside a list run, inside
\* an open fence and after an unclosed marker, and documents, texts and
\* block sequences to follow them.
CallDocuments ==
  { <<"-", " ", "a">>,
    Fence \o <<NL, "a">>,
    <<"*", "a", NL, "b">>,
    <<"#", " ", "a">>,
    <<"1", ".", " ", "a", NL, "b">> }

CallTexts == { <<"*", "*", "a">>, <<"a">>, <<"[", "a", "]", "(", "u", ")">> }

CallBlocks ==
  { <<createBulletedListItem(<<"a">>)>>,
    <<createCodeBlock(<<"c">>, <<>>), createParagraph(<<"a">>)>>,
    <<>> }

InitCalls ==
  /\ m2b = m2bIdle
  /\ prt = prtIdle
  /\ b2m = b2mIdle
  /\ cc = ccIdle
  /\ ept = eptIdle
  /\ pe = peIdle
  /\ ap = apIdle
  /\ bu = buIdle

CallMarkdownToBlocks ==
  /\ m2b.pc \in {"idle", "done"}
  /\ \E markdown \in CallDocuments : m2b' = m2bCall(m2b, markdown)
  /\ UNCHANGED <<prt, b2m, cc, ept, pe, ap, bu>>

CallParseRichText ==
  /\ prt.pc \in {"idle", "done"}
  /\ \E text \in CallTexts : prt' = prtCall(prt, text)
  /\ UNCHANGED <<m2b, b2m, cc, ept, pe, ap, bu>>

CallBlocksToMarkdown ==
  /\ b2m.pc \in {"idle", "done"}
  /\ \E blocks \in CallBlocks : b2m' = b2mCall(b2m, blocks)
  /\ UNCHANGED <<m2b, prt, cc, ept, pe, ap, bu>>

NextCalls ==
  \/ CallMarkdownToBlocks
  \/ CallParseRichText
  \/ CallBlocksToMarkdown
  \/ Next
  \/ NextRich
  \/ NextRender

SpecCalls == InitCalls /\ [][NextCalls]_vars

(***************************************************************************)
(* One call of contentConvert (specification SpecConvert) on any direction *)
(* and any content: a markdown document, a JSON text, a string that is     *)
(* neither, an array of blocks, or a value of another kind.                *)
(***************************************************************************)
Directions == {"markdown-to-blocks", "blocks-to-markdown", "blocks-to-html"}

ConvertStrings ==
  CallDocuments
    \cup NotJSON
    \cup {JSONEmptyArray, JSONSpacedArray, JSONObjectArray, JSONDividerArray,
          JSONTwoBlocks, JSONNullArray, JSONObject, JSONNumber, JSONNull,
          JSONString}

ConvertArrays ==
  { <<>>,
    <<createDivider>>,
    <<createHeading(1, <<"T">>), createParagraph(<<"a">>)>>,
    <<styled("table", <<>>), createQuote(<<"q">>)>>,
    <<dividerObject>>,
    <<dividerObject, emptyObject>>,
    <<emptyObject>>,
    <<nullElement>> }

ConvertContents ==
  {jsString(s) : s \in ConvertStrings}
    \cup {jsArray(a) : a \in ConvertArrays}
    \cup {jsOther(kind) : kind \in OtherKinds}

ConvertInputs == [direction : Directions, content : ConvertContents]

InitConvert ==
  /\ cc \in {ccEntry(input) : input \in ConvertInputs}
  /\ ept = eptIdle
  /\ m2b = m2bIdle
  /\ prt = prtIdle
  /\ b2m = b2mIdle
  /\ pe = peIdle
  /\ ap = apIdle
  /\ bu = buIdle

CaseMarkdownToBlocks ==
  /\ cc.pc = "switch"
  /\ cc.input.direction = "markdown-to-blocks"
  /\ cc' = ccMarkdownToBlocks(cc)
  /\ UNCHANGED <<m2b, prt, b2m, ept, pe, ap, bu>>

CaseBlocksToMarkdown ==
  /\ cc.pc = "switch"
  /\ cc.input.direction = "blocks-to-markdown"
  /\ cc' = ccBlocksToMarkdown(cc)
  /\ UNCHANGED <<m2b, prt, b2m, ept, pe, ap, bu>>

CaseDefault ==
  /\ cc.pc = "switch"
  /\ cc.input.direction
       \notin {"markdown-to-blocks", "blocks-to-markdown"}
  /\ cc' = ccDefault(cc)
  /\ UNCHANGED <<m2b, prt, b2m, ept, pe, ap, bu>>

Catch ==
  /\ cc.pc = "catch"
  /\ cc' = ccCatch(cc)
  /\ UNCHANGED <<m2b, prt, b2m, ept, pe, ap, bu>>

NextConvert ==
  CaseMarkdownToBlocks \/ CaseBlocksToMarkdown \/ CaseDefault \/ Catch

SpecConvert == InitConvert /\ [][NextConvert]_vars

(***************************************************************************)
(* One call of extractPlainText (specification SpecPlain) on any short     *)
(* sequence of spans that differ in content, annotations and link.         *)
(***************************************************************************)
PlainSpans ==
  {[createRichText(content, [NoAnnotations EXCEPT !.bold = b])
      EXCEPT !.text.link = l] :
     content \in {<<>>, <<"a">>, <<"b", "*">>},
     b \in Booleans,
     l \in {nullLink, [url |-> <<"u">>]}}

PlainSequences == Arrays(PlainSpans, 0, MaxSpans)

InitPlain ==
  /\ ept \in {eptEntry(richText) : richText \in PlainSequences}
  /\ m2b = m2bIdle
  /\ prt = prtIdle
  /\ b2m = b2mIdle
  /\ cc = ccIdle
  /\ pe = peIdle
  /\ ap = apIdle
  /\ bu = buIdle

PlainIteration ==
  /\ ept.pc = "map"
  /\ ept.k < Len(ept.richText)
  /\ ept' = eptIteration(ept)
  /\ UNCHANGED <<m2b, prt, b2m, cc, pe, ap, bu>>

PlainReturn ==
  /\ ept.pc = "map"
  /\ ~(ept.k < Len(ept.richText))
  /\ ept' = eptReturn(ept)
  /\ UNCHANGED <<m2b, prt, b2m, cc, pe, ap, bu>>

NextPlain == PlainIteration \/ PlainReturn

SpecPlain == InitPlain /\ [][NextPlain]_vars

(***************************************************************************)
(* One call of pagesEdit with prepend_content (specification SpecPrepend)  *)
(* on any page of a few blocks: blocks of the types the converter renders, *)
(* a block of a type it does not, and a paragraph without text.            *)
(***************************************************************************)
PageBlocks ==
  { createHeading(1, <<"T">>),
    createParagraph(<<"a">>),
    createBulletedListItem(<<"b">>),
    createCodeBlock(<<"c">>, <<"j">>),
    createParagraph(<<>>),
    styled("table", <<>>) }

Pages ==
  {[k \in 1..Len(blocks) |-> stored(k, blocks[k])] :
     blocks \in Arrays(PageBlocks, 0, MaxExisting)}

PrependContents == { <<"#", " ", "n">>, <<"n", NL, "-", " ", "m">>, <<" ">> }

InitPrepend ==
  /\ pe \in {peEntry(children, prepend_content) :
               children \in Pages, prepend_content \in PrependContents}
  /\ m2b = m2bIdle
  /\ prt = prtIdle
  /\ b2m = b2mIdle
  /\ cc = ccIdle
  /\ ept = eptIdle
  /\ ap = apIdle
  /\ bu = buIdle

PrependList ==
  /\ pe.pc = "list"
  /\ pe' = peList(pe)
  /\ UNCHANGED <<m2b, prt, b2m, cc, ept, ap, bu>>

PrependDelete ==
  /\ pe.pc = "delete"
  /\ pe.k < Len(pe.existingBlocks)
  /\ pe' = peDelete(pe)
  /\ UNCHANGED <<m2b, prt, b2m, cc, ept, ap, bu>>

PrependAppendNew ==
  /\ pe.pc = "delete"
  /\ ~(pe.k < Len(pe.existingBlocks))
  /\ pe' = peAppendNew(pe)
  /\ UNCHANGED <<m2b, prt, b2m, cc, ept, ap, bu>>

PrependRecreate ==
  /\ pe.pc = "recreate"
  /\ pe' = peRecreate(pe)
  /\ UNCHANGED <<m2b, prt, b2m, cc, ept, ap, bu>>

PrependReturn ==
  /\ pe.pc = "return"
  /\ pe' = peReturn(pe)
  /\ UNCHANGED <<m2b, prt, b2m, cc, ept, ap, bu>>

NextPrepend ==
  \/ PrependList
  \/ PrependDelete
  \/ PrependAppendNew
  \/ PrependRecreate
  \/ PrependReturn

SpecPrepend == InitPrepend /\ [][NextPrepend]_vars

(***************************************************************************)
(* One call of autoPaginate (specification SpecPaginate) on any listing of *)
(* a few pages, one that ends and one that never does, with and without    *)
(* each option.  The calls run to their end: the fetch of a listing that   *)
(* answers resolves, and the loop goes on with the statement after the     *)
(* await (specification SpecPaginateFair).  A run on a listing that never  *)
(* ends is followed for MaxFetches fetches.                                *)
(***************************************************************************)
PageResults == { <<>>, <<"x">>, <<"y", "z">> }

Listings ==
  {[pages |-> pages, last |-> last] :
     pages \in Arrays(PageResults, 1, MaxListingPages),
     last \in {null, cursorOf(1)}}

PaginationOptions ==
  {[maxPages |-> maxPages, pageSize |-> pageSize] :
     maxPages \in {<<>>, <<0>>, <<1>>, <<2>>},
     pageSize \in {<<>>, <<2>>}}

InitPaginate ==
  /\ ap \in {apEntry(listing, options) :
               listing \in Listings, options \in PaginationOptions}
  /\ m2b = m2bIdle
  /\ prt = prtIdle
  /\ b2m = b2mIdle
  /\ cc = ccIdle
  /\ ept = eptIdle
  /\ pe = peIdle
  /\ bu = buIdle

PaginateFetch ==
  /\ ap.pc = "do"
  /\ ap.pageCount < MaxFetches
  /\ ap' = apIteration(ap)
  /\ UNCHANGED <<m2b, prt, b2m, cc, ept, pe, bu>>

PaginateReturn ==
  /\ ap.pc = "return"
  /\ ap' = apReturn(ap)
  /\ UNCHANGED <<m2b, prt, b2m, cc, ept, pe, bu>>

NextPaginate == PaginateFetch \/ PaginateReturn

SpecPaginate == InitPaginate /\ [][NextPaginate]_vars

SpecPaginateFair ==
  SpecPaginate /\ WF_vars(PaginateFetch) /\ WF_vars(PaginateReturn)

(***************************************************************************)
(* One call of the blocks tool with action 'update' (specification         *)
(* SpecUpdate) on a stored block of any type, with content of any kind:    *)
(* left out, empty, blank, and markdown whose first block is of each type. *)
(***************************************************************************)
StoredBlocks ==
  { createParagraph(<<"o">>),
    createHeading(1, <<"o">>),
    createHeading(2, <<"o">>),
    createHeading(3, <<"o">>),
    createBulletedListItem(<<"o">>),
    createNumberedListItem(<<"o">>),
    createQuote(<<"o">>),
    createCodeBlock(<<"o">>, <<>>),
    createDivider,
    styled("table", <<>>) }

UpdateContents ==
  { <<>>,
    << <<>> >>,
    << <<" ">> >>,
    << <<"a">> >>,
    << <<"*", "*", "b", "*", "*">> >>,
    << <<"#", " ", "a">> >>,
    << <<"#", "#", " ", "a">> >>,
    << <<"#", "#", "#", " ", "a">> >>,
    << <<"-", " ", "a">> >>,
    << <<"1", ".", " ", "a">> >>,
    << <<">", " ", "a">> >>,
    << <<"-", "-", "-">> >>,
    << Fence \o <<NL, "c">> >>,
    << <<"a", NL, "#", " ", "b">> >> }

InitUpdate ==
  /\ bu \in {buEntry(block, content) :
               block \in StoredBlocks, content \in UpdateContents}
  /\ m2b = m2bIdle
  /\ prt = prtIdle
  /\ b2m = b2mIdle
  /\ cc = ccIdle
  /\ ept = eptIdle
  /\ pe = peIdle
  /\ ap = apIdle

UpdateCase ==
  /\ bu.pc = "update"
  /\ bu' = buCase(bu)
  /\ UNCHANGED <<m2b, prt, b2m, cc, ept, pe, ap>>

UpdateRetrieve ==
  /\ bu.pc = "retrieve"
  /\ bu' = buRetrieve(bu)
  /\ UNCHANGED <<m2b, prt, b2m, cc, ept, pe, ap>>

UpdateSend ==
  /\ bu.pc = "send"
  /\ bu' = buSend(bu)
  /\ UNCHANGED <<m2b, prt, b2m, cc, ept, pe, ap>>

UpdateCatch ==
  /\ bu.pc = "catch"
  /\ bu' = buCatch(bu)
  /\ UNCHANGED <<m2b, prt, b2m, cc, ept, pe, ap>>

NextUpdate == UpdateCase \/ UpdateRetrieve \/ UpdateSend \/ UpdateCatch

SpecUpdate == InitUpdate /\ [][NextUpdate]_vars

(***************************************************************************)
(* One call of blocksToMarkdown on blocks as the API may hand them over    *)
(* (specification SpecMalformed): a block of a supported type whose        *)
(* rich_text is missing, is no array, or holds a span that is null or has  *)
(* no text, alone, before and after a block that is whole; and a block     *)
(* whose payload is missing.                                               *)
(***************************************************************************)
PlainSpan(content) == createRichText(content, NoAnnotations)

\* The kinds of rich_text, by number.
RichTextKinds == 1..12

RichTextOfKind(kind) ==
  CASE kind = 1 -> notArray("undefined")
    [] kind = 2 -> notArray("null")
    [] kind = 3 -> notArray("string")
    [] kind = 4 -> notArray("object")
    [] kind = 5 -> notArray("empty string")
    [] kind = 6 -> <<jsOther("null")>>
    [] kind = 7 -> <<PlainSpan(<<"a">>), jsOther("null"), PlainSpan(<<"b">>)>>
    [] kind = 8 -> <<[type |-> "text"]>>
    [] kind = 9 ->
         <<PlainSpan(<<"a">>),
           [type |-> "text",
            annotations |-> [NoAnnotations EXCEPT !.bold = TRUE]],
           PlainSpan(<<"b">>)>>
    [] kind = 10 -> <<[type |-> "text", text |-> jsOther("null")]>>
    [] kind = 11 -> <<jsOther("undefined"), PlainSpan(<<"a">>)>>
    [] kind = 12 -> <<PlainSpan(<<"a">>)>>

\* Kind 0 of payload: the rich_text is left out of it.
PayloadKinds == 0..12

PayloadOfKind(type, kind) ==
  IF type = "code"
  THEN (IF kind = 0 THEN [language |-> <<"j">>]
        ELSE [rich_text |-> RichTextOfKind(kind), language |-> <<"j">>])
  ELSE (IF kind = 0 THEN [color |-> "default"]
        ELSE [rich_text |-> RichTextOfKind(kind), color |-> "default"])

RenderedTypes == UpdatableTypes \cup {"code"}

BlockOfKind(type, kind) ==
  [object |-> "block", type |-> type] @@ (type :> PayloadOfKind(type, kind))

\* A block without its payload.
BareBlock(type) == [object |-> "block", type |-> type]

\* The places of the block in the sequence.
Places == 1..4

SequenceOfPlace(block, place) ==
  CASE place = 1 -> <<block>>
    [] place = 2 -> <<createQuote(<<"q">>), block>>
    [] place = 3 -> <<block, createQuote(<<"q">>)>>
    [] place = 4 -> <<block, createDivider, block>>

InitMalformed ==
  /\ \E type \in RenderedTypes, place \in Places :
       \/ \E kind \in PayloadKinds :
            b2m = b2mEntry(SequenceOfPlace(BlockOfKind(type, kind), place))
       \/ b2m = b2mEntry(SequenceOfPlace(BareBlock(type), place))
  /\ m2b = m2bIdle
  /\ prt = prtIdle
  /\ cc = ccIdle
  /\ ept = eptIdle
  /\ pe = peIdle
  /\ ap = apIdle
  /\ bu = buIdle

SpecMalformed == InitMalformed /\ [][NextRender]_vars

(***************************************************************************)
(* Properties of markdownToBlocks (specification Spec).                    *)
(***************************************************************************)
Done == m2b.pc = "done"

\* The types of the blocks, in order.
TypesOf(blocks) == [k \in 1..Len(blocks) |-> blocks[k].type]

\* The line a block comes from.
LineOfBlock(k) == At(m2b.lines, m2b.blockLines[k])

\* C1: the blocks are in the order of the lines that produced them: every
\* block has its line, and the lines of the blocks increase strictly, with
\* list items buffered in currentList interleaved with any other lines.
C1_BlocksInLineOrder ==
  /\ Len(m2b.blockLines) = Len(m2b.blocks)
  /\ \A a, b \in 1..Len(m2b.blockLines) :
       a < b => m2b.blockLines[a] < m2b.blockLines[b]

\* A list item, then a heading, then a list item of the other type came out
\* in that order.
C1_Witness ==
  /\ Done
  /\ TypesOf(m2b.blocks)
       = <<"bulleted_list_item", "heading_1", "numbered_list_item">>
  /\ m2b.blockLines = <<0, 1, 2>>

\* The number of digits a line begins with.
RECURSIVE LeadingDigits(_)
LeadingDigits(line) ==
  IF line # <<>> /\ Head(line) \in Digits
  THEN 1 + LeadingDigits(Tail(line))
  ELSE 0

\* Whether a line begins with the characters p.
Begins(line, p) ==
  Len(line) >= Len(p) /\ \A k \in 1..Len(p) : line[k] = p[k]

\* The block type the precedence list gives a non-blank line outside a
\* fenced run, first match first, where a list marker is followed by one of
\* the characters `spaces'.
RuleType(line, spaces) ==
  LET n == LeadingDigits(line)
  IN CASE Begins(line, <<"#", " ">>) -> "heading_1"
       [] Begins(line, <<"#", "#", " ">>) -> "heading_2"
       [] Begins(line, <<"#", "#", "#", " ">>) -> "heading_3"
       [] Begins(line, <<BT, BT, BT>>) -> "code"
       [] /\ Len(line) >= 2
          /\ line[1] \in {"-", "*"}
          /\ line[2] \in spaces -> "bulleted_list_item"
       [] /\ n >= 1
          /\ Len(line) >= n + 2
          /\ line[n + 1] = "."
          /\ line[n + 2] \in spaces -> "numbered_list_item"
       [] Begins(line, <<">", " ">>) -> "quote"
       [] /\ Len(line) >= 3
          /\ {line[k] : k \in 1..Len(line)} \subseteq {"-", "*"} -> "divider"
       [] OTHER -> "paragraph"

\* Whether a line holds a character that is no white space.
NonBlank(line) == \E k \in 1..Len(line) : line[k] \notin WhiteSpace

\* Every block has the type the precedence list gives its line, and a
\* document of one non-blank line gives exactly one block.
ClassifiedBy(spaces) ==
  /\ \A k \in 1..Len(m2b.blocks) :
       m2b.blocks[k].type = RuleType(LineOfBlock(k), spaces)
  /\ (Done /\ Len(m2b.lines) = 1 /\ NonBlank(m2b.lines[1]))
       => Len(m2b.blocks) = 1

\* C2 as stated: rule (3) asks for a list marker followed by a space.
C2_Original == ClassifiedBy({" "})

\* C2, amended: the precedence list decides the type of every block, where
\* the list marker of rule (3) is followed by any white-space character.
C2_Precedence == ClassifiedBy(WhiteSpace)

\* A dash followed by a tab was classified as a bulleted list item.
C2_Witness ==
  /\ Done
  /\ m2b.lines = << <<"-", TAB, "a">> >>
  /\ TypesOf(m2b.blocks) = <<"bulleted_list_item">>

\* The lines that begin with three backquotes, from line `from' on.
FenceLinesFrom(from) ==
  {j \in from..(Len(m2b.lines) - 1) : Begins(At(m2b.lines, j), <<BT, BT, BT>>)}

Least(S) == CHOOSE j \in S : \A h \in S : j <= h

\* The first fence opener of the document and the line that closes it.
HasOpener == FenceLinesFrom(0) # {}
Opener == Least(FenceLinesFrom(0))
HasCloser == HasOpener /\ FenceLinesFrom(Opener + 1) # {}
Closer == Least(FenceLinesFrom(Opener + 1))

\* The position in the document of the first character of line j.
RECURSIVE StartOfLine(_)
StartOfLine(j) ==
  IF j = 0 THEN 0 ELSE StartOfLine(j - 1) + Len(At(m2b.lines, j - 1)) + 1

\* The characters of the document from the start of line a to the end of line
\* b - 1, without the newline that ends it: nothing when there is no such line.
DocumentText(a, b) ==
  IF a >= b THEN <<>>
  ELSE SubSeq(m2b.markdown, StartOfLine(a) + 1, StartOfLine(b) - 1)

\* The blocks that come from line j.
BlocksOfLine(j) == {k \in 1..Len(m2b.blocks) : m2b.blockLines[k] = j}

\* A code block holding exactly `text', as one unformatted span.
IsCodeWith(block, text) ==
  /\ block.type = "code"
  /\ Len(block.code.rich_text) = 1
  /\ block.code.rich_text[1].text.content = text
  /\ block.code.rich_text[1].text.link = nullLink
  /\ block.code.rich_text[1].annotations.bold = FALSE
  /\ block.code.rich_text[1].annotations.italic = FALSE
  /\ block.code.rich_text[1].annotations.code = FALSE
  /\ block.code.rich_text[1].annotations.strikethrough = FALSE

\* C6: a closed fenced run gives exactly one code block, whose text is the
\* document between the opening and the closing fence line, character for
\* character; no interior line and not the closing line gives a block, and
\* the line after the closing fence is classified as any other line.
C6_ClosedFence ==
  (Done /\ HasCloser) =>
    /\ Cardinality(BlocksOfLine(Opener)) = 1
    /\ \A k \in BlocksOfLine(Opener) :
         IsCodeWith(m2b.blocks[k], DocumentText(Opener + 1, Closer))
    /\ \A j \in (Opener + 1)..Closer : BlocksOfLine(j) = {}
    /\ (Closer + 1 < Len(m2b.lines) /\ NonBlank(At(m2b.lines, Closer + 1)))
         => /\ Cardinality(BlocksOfLine(Closer + 1)) = 1
            /\ \A k \in BlocksOfLine(Closer + 1) :
                 m2b.blocks[k].type
                   = RuleType(At(m2b.lines, Closer + 1), WhiteSpace)

\* A fenced run with a blank and a heading-like interior line was closed and
\* followed by a heading.
C6_Witness ==
  /\ Done
  /\ m2b.lines
       = <<Fence, <<>>, <<"#", " ", "a">>, Fence, <<"#", " ", "a">> >>
  /\ TypesOf(m2b.blocks) = <<"code", "heading_1">>
  /\ m2b.blocks[1].code.rich_text[1].text.content = <<NL, "#", " ", "a">>

\* s without its leading and trailing white space.
Stripped(s) ==
  LET inked == {k \in 1..Len(s) : s[k] \notin WhiteSpace}
  IN IF inked = {} THEN <<>>
     ELSE SubSeq(s, Least(inked), CHOOSE k \in inked : \A h \in inked : h <= k)

\* The text after the three backquotes of an opening fence line.
AfterFence(line) == SubSeq(line, 4, Len(line))

\* C7 as stated: the language is the text that follows the three backquotes.
C7_Original ==
  \A k \in 1..Len(m2b.blocks) :
    m2b.blocks[k].type = "code"
      => m2b.blocks[k].code.language = AfterFence(LineOfBlock(k))

\* C7, amended: the language is the text that follows the three backquotes
\* without its leading and trailing white space, and 'plain text' when
\* nothing is left.
C7_Language ==
  \A k \in 1..Len(m2b.blocks) :
    m2b.blocks[k].type = "code"
      => m2b.blocks[k].code.language
           = (IF Stripped(AfterFence(LineOfBlock(k))) = <<>>
              THEN PlainText
              ELSE Stripped(AfterFence(LineOfBlock(k))))

\* An opening fence followed by one space gave the language 'plain text'.
C7_Witness ==
  /\ Done
  /\ m2b.lines = << <<BT, BT, BT, " ">> >>
  /\ Len(m2b.blocks) = 1
  /\ m2b.blocks[1].code.language = PlainText

\* C8: a fence that is never closed takes every remaining line of the
\* document as the text of its code block, which is the last block, and the
\* call still returns.
C8_OpenFence ==
  /\ (Done /\ HasOpener /\ ~HasCloser) =>
       /\ BlocksOfLine(Opener) = {Len(m2b.blocks)}
       /\ IsCodeWith(m2b.blocks[Len(m2b.blocks)],
                     DocumentText(Opener + 1, Len(m2b.lines)))
  /\ m2b.i <= Len(m2b.lines) + 1
  /\ ~Done => m2b.pc \in {"for", "while"}

\* An open fence after a list item took a blank line and a list line.
C8_Witness ==
  /\ Done
  /\ m2b.lines = << <<"-", " ", "a">>, Fence, <<" ">> >>
  /\ TypesOf(m2b.blocks) = <<"bulleted_list_item", "code">>
  /\ m2b.blocks[2].code.rich_text[1].text.content = <<" ">>

\* Whether the link lookahead of the tokenizer succeeds at position k.
LinkBeginsAt(line, k) ==
  /\ line[k] = "["
  /\ \E c \in (k + 1)..(Len(line) - 1) :
       /\ line[c] = "]"
       /\ \A j \in k..(c - 1) : line[j] # "]"
       /\ line[c + 1] = "("
       /\ \E p \in (c + 2)..Len(line) : line[p] = ")"

\* Whether a line holds an inline marker: an asterisk, a backquote, two
\* adjacent tildes or a well-formed link.
HasInlineMarker(line) ==
  \E k \in 1..Len(line) :
    \/ line[k] \in {"*", BT}
    \/ k < Len(line) /\ line[k] = "~" /\ line[k + 1] = "~"
    \/ LinkBeginsAt(line, k)

\* A line with no recognized markdown marker: no rule but the paragraph rule
\* matches it and it holds no inline marker.
NoMarker(line) ==
  RuleType(line, WhiteSpace) = "paragraph" /\ ~HasInlineMarker(line)

\* One paragraph whose plain text is the line.
OneParagraphOf(line) ==
  /\ Len(m2b.blocks) = 1
  /\ m2b.blocks[1].type = "paragraph"
  /\ extractPlainText(m2b.blocks[1].paragraph.rich_text) = line

\* C10 as stated: every single marker-free line gives one paragraph.
C10_Original ==
  (Done /\ Len(m2b.lines) = 1 /\ NoMarker(m2b.lines[1]))
    => OneParagraphOf(m2b.lines[1])

\* C10, amended: every single marker-free line that is not blank (holds a
\* character that is no white space) gives exactly one paragraph whose plain
\* text is the line.
C10_PlainParagraph ==
  (Done /\ Len(m2b.lines) = 1 /\ NoMarker(m2b.lines[1])
     /\ NonBlank(m2b.lines[1]))
    => OneParagraphOf(m2b.lines[1])

\* A marker-free line with stray marker characters gave one paragraph.
C10_Witness ==
  /\ Done
  /\ m2b.lines = << <<" ", "#", "-", "a">> >>
  /\ OneParagraphOf(<<" ", "#", "-", "a">>)

(***************************************************************************)
(* Properties of parseRichText (specification SpecRich).                   *)
(***************************************************************************)
RichDone == prt.pc = "done"

\* The position (from 1) of the ')' that ends the link beginning at k.
LinkEnd(line, k) ==
  LET c == Least({j \in (k + 1)..Len(line) : line[j] = "]"})
  IN Least({p \in (c + 2)..Len(line) : line[p] = ")"})

\* The text between the brackets of the link beginning at k.
LinkText(line, k) ==
  SubSeq(line, k + 1, Least({j \in (k + 1)..Len(line) : line[j] = "]"}) - 1)

\* The line from position k (from 1) on, with its syntax markers removed:
\* each '**', each lone '*', each backquote, each '~~', and the brackets,
\* parentheses and URL of each well-formed link.
RECURSIVE Unmarked(_, _)
Unmarked(line, k) ==
  IF k > Len(line) THEN <<>>
  ELSE IF LinkBeginsAt(line, k)
  THEN LinkText(line, k) \o Unmarked(line, LinkEnd(line, k) + 1)
  ELSE IF line[k] = "*" /\ k < Len(line) /\ line[k + 1] = "*"
  THEN Unmarked(line, k + 2)
  ELSE IF line[k] \in {"*", BT}
  THEN Unmarked(line, k + 1)
  ELSE IF line[k] = "~" /\ k < Len(line) /\ line[k + 1] = "~"
  THEN Unmarked(line, k + 2)
  ELSE <<line[k]>> \o Unmarked(line, k + 1)

\* C3: the contents of the spans, concatenated, are the line with exactly its
\* markers removed, and no span content holds a marker.
C3_MarkersRemoved ==
  RichDone =>
    /\ extractPlainText(prt.result) = Unmarked(prt.text, 1)
    /\ \A n \in 1..Len(prt.result) :
         ~HasInlineMarker(prt.result[n].text.content)

\* The number of markers of one kind ("bold", "italic", "code",
\* "strikethrough") that begin at a position (from 0) from p on and before
\* `upto', read greedily from the left and outside consumed link syntax.
RECURSIVE Markers(_, _, _, _)
Markers(line, kind, p, upto) ==
  IF p >= upto \/ p >= Len(line) THEN 0
  ELSE IF LinkBeginsAt(line, p + 1)
  THEN Markers(line, kind, LinkEnd(line, p + 1), upto)
  ELSE IF line[p + 1] = "*" /\ p + 2 <= Len(line) /\ line[p + 2] = "*"
  THEN (IF kind = "bold" THEN 1 ELSE 0) + Markers(line, kind, p + 2, upto)
  ELSE IF line[p + 1] = "*"
  THEN (IF kind = "italic" THEN 1 ELSE 0) + Markers(line, kind, p + 1, upto)
  ELSE IF line[p + 1] = BT
  THEN (IF kind = "code" THEN 1 ELSE 0) + Markers(line, kind, p + 1, upto)
  ELSE IF line[p + 1] = "~" /\ p + 2 <= Len(line) /\ line[p + 2] = "~"
  THEN (IF kind = "strikethrough" THEN 1 ELSE 0)
         + Markers(line, kind, p + 2, upto)
  ELSE Markers(line, kind, p + 1, upto)

Odd(n) == n % 2 = 1

\* Whether the four flags a carries are the parities of the markers that
\* begin before position `upto' of the line.
ParityAt(a, line, upto) ==
  /\ a.bold = Odd(Markers(line, "bold", 0, upto))
  /\ a.italic = Odd(Markers(line, "italic", 0, upto))
  /\ a.code = Odd(Markers(line, "code", 0, upto))
  /\ a.strikethrough = Odd(Markers(line, "strikethrough", 0, upto))

\* C5: each marker, read greedily, flips exactly one flag.  In every step of
\* the scan, the spans the step emits carry the parities of the markers before
\* the position the step reads (the state before the marker it reads
\* toggles), the flags after the step are the parities of the markers before
\* the position it moves to, and the span returned for a line that gave no
\* span is unformatted.
C5_FlagsAreParities ==
  [][/\ \A n \in (Len(prt.richText) + 1)..Len(prt'.richText) :
          ParityAt(prt'.richText[n].annotations, prt.text, prt.i)
     /\ ParityAt(Active(prt'), prt.text, prt'.i)
     /\ (prt'.pc = "done" /\ prt'.richText = <<>>) =>
          /\ Len(prt'.result) = 1
          /\ ParityAt(prt'.result[1].annotations, prt.text, 0)
     /\ (prt'.pc = "done" /\ prt'.richText # <<>>) =>
          prt'.result = prt'.richText]_vars

\* The flags of the spans, in order: bold, italic, code, strikethrough.
FlagsOf(richText) ==
  [n \in 1..Len(richText) |->
     <<richText[n].annotations.bold, richText[n].annotations.italic,
       richText[n].annotations.code, richText[n].annotations.strikethrough>>]

\* '**a *b** c*' gave 'a ' bold, 'b' bold and italic, ' c' italic.
C5_Witness ==
  /\ RichDone
  /\ prt.text = <<"*", "*", "a", " ", "*", "b", "*", "*", " ", "c", "*">>
  /\ [n \in 1..Len(prt.result) |-> prt.result[n].text.content]
       = << <<"a", " ">>, <<"b">>, <<" ", "c">> >>
  /\ FlagsOf(prt.result)
       = << <<TRUE, FALSE, FALSE, FALSE>>, <<TRUE, TRUE, FALSE, FALSE>>,
            <<FALSE, TRUE, FALSE, FALSE>> >>

(***************************************************************************)
(* Properties of blocksToMarkdown (specification SpecRender).              *)
(***************************************************************************)
RenderDone == b2m.pc = "done"

\* The markers of the styles of a span, from the outermost to the innermost,
\* when the styles are nested in the order `order' from the outside in.
RECURSIVE Opening(_, _)
Opening(a, order) ==
  IF order = <<>> THEN <<>>
  ELSE (CASE Head(order) = "bold" -> IF a.bold THEN <<"*", "*">> ELSE <<>>
          [] Head(order) = "italic" -> IF a.italic THEN <<"*">> ELSE <<>>
          [] Head(order) = "code" -> IF a.code THEN <<BT>> ELSE <<>>
          [] Head(order) = "strikethrough" ->
               IF a.strikethrough THEN <<"~", "~">> ELSE <<>>)
         \o Opening(a, Tail(order))

Reverse(s) == [k \in 1..Len(s) |-> s[Len(s) + 1 - k]]

\* A span rendered with its styles nested in the order `order' from the
\* outside in, and the link wrapper outside them all.
Nested(rt, order) ==
  LET styled_ == Opening(rt.annotations, order) \o rt.text.content
                   \o Reverse(Opening(rt.annotations, order))
  IN IF rt.text.link = nullLink THEN styled_
     ELSE <<"[">> \o styled_ \o <<"]", "(">> \o rt.text.link.url \o <<")">>

\* Every paragraph given alone is rendered with its spans nested in `order'.
RendersNested(order) ==
  (RenderDone /\ Len(b2m.blocks) = 1 /\ b2m.blocks[1].type = "paragraph")
    => b2m.result
         = concat([n \in 1..Len(b2m.blocks[1].paragraph.rich_text) |->
                     Nested(b2m.blocks[1].paragraph.rich_text[n], order)])

\* C4 as stated: bold is the outermost style marker, then italic, then code,
\* then strikethrough nearest the content.
C4_Original ==
  RendersNested(<<"bold", "italic", "code", "strikethrough">>)

\* C4, amended: the order is fixed, with strikethrough the outermost style
\* marker, then code, then italic, and bold nearest the content; the link
\* wrapper is outside all style markers.
C4_WrapOrder ==
  RendersNested(<<"strikethrough", "code", "italic", "bold">>)

AllStyles ==
  [bold |-> TRUE, italic |-> TRUE, strikethrough |-> TRUE,
   underline |-> FALSE, code |-> TRUE, color |-> "default"]

\* A span of all four styles and a link was rendered.
C4_Witness ==
  /\ RenderDone
  /\ Len(b2m.blocks) = 1
  /\ b2m.blocks[1].type = "paragraph"
  /\ b2m.blocks[1].paragraph.rich_text[1].annotations = AllStyles
  /\ b2m.blocks[1].paragraph.rich_text[1].text.link # nullLink
  /\ b2m.result
       = <<"[", "~", "~", BT, "*", "*", "*", "x", "*", "*", "*", BT,
           "~", "~", "]", "(", "u", ")">>

\* C9: a code block is rendered as the opening fence with the language, the
\* stored text exactly as stored, and the closing fence, whatever the
\* annotations and link of its spans.
C9_CodeVerbatim ==
  (RenderDone /\ Len(b2m.blocks) = 1 /\ b2m.blocks[1].type = "code")
    => b2m.result
         = Fence \o b2m.blocks[1].code.language \o <<NL>>
             \o extractPlainText(b2m.blocks[1].code.rich_text) \o <<NL>>
             \o Fence

(***************************************************************************)
(* The round trip: blocksToMarkdown of the blocks of markdownToBlocks      *)
(* (specification Spec).                                                   *)
(***************************************************************************)
\* The type of line j of the document.
TypeOfLine(j) == RuleType(At(m2b.lines, j), WhiteSpace)

HeadingTypes == {"heading_1", "heading_2", "heading_3"}

ListTypes == {"bulleted_list_item", "numbered_list_item"}

\* The text of a heading line, of a list line or of a quote line: what follows
\* its marker.
TextOfLine(line) ==
  LET t == RuleType(line, WhiteSpace)
  IN CASE t = "heading_1" -> SubSeq(line, 3, Len(line))
       [] t = "heading_2" -> SubSeq(line, 4, Len(line))
       [] t = "heading_3" -> SubSeq(line, 5, Len(line))
       [] t = "bulleted_list_item" -> SubSeq(line, 3, Len(line))
       [] t = "numbered_list_item" ->
            SubSeq(line, LeadingDigits(line) + 3, Len(line))
       [] t = "quote" -> SubSeq(line, 3, Len(line))
       [] OTHER -> line

\* The non-blank lines that are list lines.
ListLinesOfDocument ==
  {j \in 0..(Len(m2b.lines) - 1) :
     NonBlank(At(m2b.lines, j)) /\ TypeOfLine(j) \in ListTypes}

\* The list lines are one list of one style: they are adjacent and of one
\* type.
OneSingleStyleList ==
  \A a, b \in ListLinesOfDocument :
    /\ TypeOfLine(a) = TypeOfLine(b)
    /\ \A j \in a..b : j \in ListLinesOfDocument

\* A document of heading lines, marker-free paragraph lines, blank lines and
\* one single-style list; with plainText, the text of a heading or of a list
\* item holds no inline marker either.
RoundTripDocument(plainText) ==
  /\ OneSingleStyleList
  /\ \A j \in 0..(Len(m2b.lines) - 1) :
       LET line == At(m2b.lines, j)
       IN NonBlank(line) =>
            \/ TypeOfLine(j) = "paragraph" /\ NoMarker(line)
            \/ /\ TypeOfLine(j) \in HeadingTypes \cup ListTypes
               /\ plainText => ~HasInlineMarker(TextOfLine(line))

\* The line the round trip is to give for a line.
RoundTripLine(line) ==
  LET t == RuleType(line, WhiteSpace)
  IN CASE t = "bulleted_list_item" -> <<"-", " ">> \o TextOfLine(line)
       [] t = "numbered_list_item" -> <<"1", ".", " ">> \o TextOfLine(line)
       [] OTHER -> line

\* The round trip of some lines: one line each, separated by newlines.
RECURSIVE RoundTripOf(_)
RoundTripOf(ls) ==
  IF ls = <<>> THEN <<>>
  ELSE IF Len(ls) = 1 THEN RoundTripLine(ls[1])
  ELSE RoundTripLine(ls[1]) \o <<NL>> \o RoundTripOf(Tail(ls))

RoundTrips(plainText) ==
  (Done /\ RoundTripDocument(plainText))
    => blocksToMarkdown(m2b.blocks)
         = RoundTripOf(SelectSeq(m2b.lines, NonBlank))

\* C11 as stated: the round trip of a document of heading lines, marker-free
\* paragraph lines and one single-style list has one line per non-blank
\* line, each heading and paragraph line unchanged, each bulleted item after
\* '- ' and each numbered item after '1. '.
C11_Original == RoundTrips(FALSE)

\* C11, amended: the same, for the documents whose headings and list items
\* hold no inline marker in their text.
C11_RoundTrip == RoundTrips(TRUE)

\* A heading, a blank line and a list with an asterisk bullet went round.
C11_Witness ==
  /\ Done
  /\ m2b.lines = << <<"#", " ", "a">>, <<>>, <<"*", " ", "b">> >>
  /\ RoundTripDocument(TRUE)
  /\ blocksToMarkdown(m2b.blocks)
       = <<"#", " ", "a", NL, "-", " ", "b">>

\* A numbered item came back with the number one.
C11_WitnessNumbered ==
  /\ Done
  /\ m2b.lines = << <<"1", ".", " ", "a">>, <<"2", ".", " ", "b">> >>
  /\ RoundTripDocument(TRUE)
  /\ blocksToMarkdown(m2b.blocks)
       = <<"1", ".", " ", "a", NL, "1", ".", " ", "b">>

(***************************************************************************)
(* Properties of blocksToMarkdown on whole sequences (specification        *)
(* SpecRender).                                                            *)
(***************************************************************************)
\* The block types blocksToMarkdown renders.
SupportedTypes ==
  {"heading_1", "heading_2", "heading_3", "paragraph", "bulleted_list_item",
   "numbered_list_item", "code", "quote", "divider"}

Supported(block) == block.type \in SupportedTypes

\* A supported block that renders as one line.
SingleLine(block) == Supported(block) /\ block.type # "code"

\* The number of newlines of a string.
Newlines(s) == Cardinality({k \in 1..Len(s) : s[k] = NL})

\* C12: a block of an unsupported type is skipped: the output for a sequence
\* is the output for the sequence without its unsupported blocks, and two
\* single-line blocks with one unsupported block give exactly two lines.
C12_UnsupportedSkipped ==
  RenderDone =>
    /\ b2m.result = blocksToMarkdown(SelectSeq(b2m.blocks, Supported))
    /\ ( /\ Len(b2m.blocks) = 3
         /\ \E u \in 1..3 :
              /\ ~Supported(b2m.blocks[u])
              /\ \A k \in (1..3) \ {u} : SingleLine(b2m.blocks[k]) )
         => Newlines(b2m.result) = 1

\* A table between a heading and a divider left no line.
C12_Witness ==
  /\ RenderDone
  /\ TypesOf(b2m.blocks) = <<"heading_1", "table", "divider">>
  /\ b2m.result = <<"#", " ", "T", NL, "-", "-", "-">>

(***************************************************************************)
(* The link lookahead of parseRichText (specification SpecRich).           *)
(***************************************************************************)
\* The positions (from 1) of a ']' after the '[' at k that is immediately
\* followed by '(' and a later ')': of any such ']', or, with `first', of
\* the first ']' after the '[' only.
LinkClosers(line, k, first) ==
  {c \in (k + 1)..(Len(line) - 1) :
     /\ line[c] = "]"
     /\ first => \A j \in (k + 1)..(c - 1) : line[j] # "]"
     /\ line[c + 1] = "("
     /\ \E p \in (c + 2)..Len(line) : line[p] = ")"}

\* The span with no link that holds the pending text of the tokenizer.
PendingSpan ==
  [type |-> "text",
   text |-> [content |-> prt.current, link |-> nullLink],
   annotations |->
     [bold |-> prt.bold, italic |-> prt.italic,
      strikethrough |-> prt.strikethrough, underline |-> FALSE,
      code |-> prt.code, color |-> "default"]]

\* The step of the tokenizer at a '[': with a closer, the pending text is
\* flushed, a span of the bracket text, the URL and the active annotations
\* follows, and the scan resumes after the ')'; with none, the '[' joins the
\* pending text and no span is emitted.
LinkStep(first) ==
  LET line == prt.text
      k == prt.i + 1
      closers == LinkClosers(line, k, first)
      c == Least(closers)
      p == Least({q \in (c + 2)..Len(line) : line[q] = ")"})
      pending == IF prt.current # <<>>
                 THEN Append(prt.richText, PendingSpan)
                 ELSE prt.richText
  IN (prt.pc = "for" /\ prt.i < Len(line) /\ line[k] = "[") =>
       /\ <<prt'.bold, prt'.italic, prt'.code, prt'.strikethrough>>
            = <<prt.bold, prt.italic, prt.code, prt.strikethrough>>
       /\ closers # {} =>
            /\ prt'.richText
                 = Append(pending,
                     [PendingSpan EXCEPT
                        !.text = [content |-> SubSeq(line, k + 1, c - 1),
                                  link |->
                                    [url |-> SubSeq(line, c + 2, p - 1)]]])
            /\ prt'.current = <<>>
            /\ prt'.i = p
       /\ closers = {} =>
            /\ prt'.richText = prt.richText
            /\ prt'.current = Append(prt.current, "[")
            /\ prt'.i = prt.i + 1

\* C13 as stated: a '[' begins a link when a ']' after it is immediately
\* followed by '(' and a later ')'.
C13_Original == [][LinkStep(FALSE)]_vars

\* C13, amended: a '[' begins a link when the first ']' after it is
\* immediately followed by '(' and a later ')'; the pending text is flushed,
\* one span of the bracket text, the URL and the active annotations is
\* emitted and the scan resumes after the ')'.  Any other '[' is literal.
C13_LinkLookahead == [][LinkStep(TRUE)]_vars

\* In '[a] [b](u)' the first '[' stayed literal and the second gave a link
\* after the flushed text.
C13_Witness ==
  /\ RichDone
  /\ prt.text = <<"[", "a", "]", " ", "[", "b", "]", "(", "u", ")">>
  /\ Len(prt.result) = 2
  /\ prt.result[1].text = [content |-> <<"[", "a", "]", " ">>,
                           link |-> nullLink]
  /\ prt.result[2].text = [content |-> <<"b">>, link |-> [url |-> <<"u">>]]

(***************************************************************************)
(* Every call returns (specification Spec).                                *)
(***************************************************************************)
\* The text after the last inline marker and the last link of a line, from
\* position k (from 1) on, where acc is the text since the last of them.
RECURSIVE Trailing(_, _, _)
Trailing(line, k, acc) ==
  IF k > Len(line) THEN acc
  ELSE IF LinkBeginsAt(line, k)
  THEN Trailing(line, LinkEnd(line, k) + 1, <<>>)
  ELSE IF line[k] = "*" /\ k < Len(line) /\ line[k + 1] = "*"
  THEN Trailing(line, k + 2, <<>>)
  ELSE IF line[k] \in {"*", BT}
  THEN Trailing(line, k + 1, <<>>)
  ELSE IF line[k] = "~" /\ k < Len(line) /\ line[k + 1] = "~"
  THEN Trailing(line, k + 2, <<>>)
  ELSE Trailing(line, k + 1, Append(acc, line[k]))

\* Whether some annotation is active at the end of a line.
UnclosedAtEnd(line) ==
  \E kind \in {"bold", "italic", "code", "strikethrough"} :
    Odd(Markers(line, kind, 0, Len(line)))

\* The block types that carry the spans of a line.
TextTypes == HeadingTypes \cup ListTypes \cup {"paragraph", "quote"}

\* Every block made of the text of a line has at least one span, and when
\* text follows the last marker of the line, its last span is that text,
\* with no link, under the annotations active at the end of the line.
FinalSpans(f) ==
  \A k \in 1..Len(f.blocks) :
    LET block == f.blocks[k]
        text == TextOfLine(At(f.lines, f.blockLines[k]))
        rt == block[block.type].rich_text
    IN block.type \in TextTypes =>
         /\ Len(rt) >= 1
         /\ Trailing(text, 1, <<>>) # <<>> =>
              /\ rt[Len(rt)].text
                   = [content |-> Trailing(text, 1, <<>>), link |-> nullLink]
              /\ ParityAt(rt[Len(rt)].annotations, text, Len(text))

\* C14: markdownToBlocks and the parseRichText of each of its lines return
\* for every string: every step moves on to a later line or returns, and
\* the text after an unclosed marker is the last span of its block, under
\* the annotations active there.
C14_AlwaysReturns ==
  [][/\ m2b'.pc = "done" \/ m2b'.i > m2b.i
     /\ m2b'.i <= Len(m2b.lines) + 1
     /\ FinalSpans(m2b')]_vars

\* The text after an unclosed bold marker and an unclosed backquote came out
\* as a last span that is bold and code.
C14_Witness ==
  /\ Done
  /\ m2b.lines = << <<"*", "*", BT, "a">> >>
  /\ UnclosedAtEnd(m2b.lines[1])
  /\ Len(m2b.blocks) = 1
  /\ m2b.blocks[1].paragraph.rich_text[1].text.content = <<"a">>
  /\ m2b.blocks[1].paragraph.rich_text[1].annotations.bold
  /\ m2b.blocks[1].paragraph.rich_text[1].annotations.code

(***************************************************************************)
(* The contents of the spans of parseRichText (specification SpecRich).    *)
(***************************************************************************)
\* C15: every span parseRichText returns for a text that is not empty has a
\* content that is not empty.
C15_NoEmptySpan ==
  (RichDone /\ prt.text # <<>>) =>
    \A n \in 1..Len(prt.result) : prt.result[n].text.content # <<>>

(***************************************************************************)
(* Blank lines and list runs (specification Spec).                         *)
(***************************************************************************)
\* Some lines without their blank lines outside a fenced run, where inFence
\* says whether the first of them is inside one.
RECURSIVE WithoutBlanks(_, _)
WithoutBlanks(ls, inFence) ==
  IF ls = <<>> THEN <<>>
  ELSE IF ~inFence /\ ~NonBlank(Head(ls))
  THEN WithoutBlanks(Tail(ls), FALSE)
  ELSE IF Begins(Head(ls), Fence)
  THEN <<Head(ls)>> \o WithoutBlanks(Tail(ls), ~inFence)
  ELSE <<Head(ls)>> \o WithoutBlanks(Tail(ls), inFence)

\* C16: the blocks of a document are the blocks of the document without its
\* blank lines outside a fenced run, so that two documents that differ by
\* such lines give the same blocks; no block comes from a blank line that is
\* not code, and a document of blank lines gives no block.
C16_BlankLinesIgnored ==
  Done =>
    /\ m2b.blocks = markdownToBlocks(join(WithoutBlanks(m2b.lines, FALSE), NL))
    /\ \A k \in 1..Len(m2b.blocks) :
         m2b.blocks[k].type # "code" => NonBlank(LineOfBlock(k))
    /\ (\A j \in 1..Len(m2b.lines) : ~NonBlank(m2b.lines[j]))
         => m2b.blocks = <<>>

\* A blank line between two list items left the two items and nothing else.
C16_Witness ==
  /\ Done
  /\ m2b.lines = << <<"-", " ", "a">>, <<" ">>, <<"*", " ", "b">> >>
  /\ m2b.blocks = markdownToBlocks(<<"-", " ", "a", NL, "*", " ", "b">>)
  /\ TypesOf(m2b.blocks) = <<"bulleted_list_item", "bulleted_list_item">>

\* Whether line j (from 0) follows an opening fence that no line before it
\* has closed.
RECURSIVE InsideFence(_)
InsideFence(j) ==
  IF j = 0 THEN FALSE
  ELSE IF InsideFence(j - 1)
  THEN ~Begins(At(m2b.lines, j - 1), Fence)
  ELSE Begins(At(m2b.lines, j - 1), Fence)

\* The lines of the form '- ' + text: all of them, or those outside a fenced
\* run only.
DashLines(outside) ==
  {j \in 0..(Len(m2b.lines) - 1) :
     /\ Begins(At(m2b.lines, j), <<"-", " ">>)
     /\ outside => ~InsideFence(j)}

\* Whether block k is the bulleted list item of the text of line j.
IsItemOf(k, j) ==
  /\ m2b.blockLines[k] = j
  /\ m2b.blocks[k].type = "bulleted_list_item"
  /\ m2b.blocks[k].bulleted_list_item.rich_text
       = parseRichText(SubSeq(At(m2b.lines, j), 3, Len(At(m2b.lines, j))))

\* Each dash line gives one block, the bulleted item of its text, and the
\* items of adjacent dash lines are adjacent blocks in the order of the
\* lines: a run of N dash lines gives N items, the i-th of the i-th line.
DashRuns(outside) ==
  Done =>
    \A j \in DashLines(outside) :
      /\ Cardinality(BlocksOfLine(j)) = 1
      /\ \A k \in BlocksOfLine(j) :
           /\ IsItemOf(k, j)
           /\ (j + 1) \in DashLines(outside)
                => k < Len(m2b.blocks) /\ IsItemOf(k + 1, j + 1)

\* C17 as stated: every run of N lines of the form '- ' + text gives N
\* bulleted list items, the i-th with the text of the i-th line.
C17_Original == DashRuns(FALSE)

\* C17, amended: every run of N lines of that form outside a fenced code run
\* gives N bulleted list items, the i-th with the text of the i-th line.
C17_DashRun == DashRuns(TRUE)

\* A run of four dash lines gave four items with the texts of the lines.
C17_Witness ==
  /\ Done
  /\ m2b.lines = << <<"-", " ", "b">>, <<"-", " ", "a">>,
                    <<"-", " ", "*", "c">>, <<"-", " ", "a">> >>
  /\ Len(m2b.blocks) = 4
  /\ \A k \in 1..4 : IsItemOf(k, k - 1)
  /\ extractPlainText(m2b.blocks[1].bulleted_list_item.rich_text) = <<"b">>

\* The fixed prefix of the line of a supported block that is not code.
PrefixOf(type) ==
  CASE type = "heading_1" -> <<"#", " ">>
    [] type = "heading_2" -> <<"#", "#", " ">>
    [] type = "heading_3" -> <<"#", "#", "#", " ">>
    [] type = "paragraph" -> <<>>
    [] type = "bulleted_list_item" -> <<"-", " ">>
    [] type = "numbered_list_item" -> <<"1", ".", " ">>
    [] type = "quote" -> <<">", " ">>

\* The one line of a supported block that is not code.
LineOf(block) ==
  IF block.type = "divider" THEN <<"-", "-", "-">>
  ELSE PrefixOf(block.type)
         \o richTextToMarkdown(block[block.type].rich_text)

\* The lines of some blocks, with one newline between two lines.
RECURSIVE LinesOf(_)
LinesOf(blocks) ==
  IF blocks = <<>> THEN <<>>
  ELSE IF Len(blocks) = 1 THEN LineOf(blocks[1])
  ELSE LineOf(blocks[1]) \o <<NL>> \o LinesOf(Tail(blocks))

\* C18: a sequence with no code block is rendered as the lines of its
\* supported blocks, each the fixed prefix of its type and its rendered
\* spans, in block order, with one newline between two lines and none after
\* the last; the empty sequence is rendered as the empty string.
C18_LinesJoined ==
  (RenderDone /\ \A k \in 1..Len(b2m.blocks) : b2m.blocks[k].type # "code")
    => b2m.result = LinesOf(SelectSeq(b2m.blocks, SingleLine))

\* Two numbered items and a divider gave three lines, both items numbered
\* one, with no newline at the end.
C18_Witness ==
  /\ RenderDone
  /\ TypesOf(b2m.blocks)
       = <<"numbered_list_item", "numbered_list_item", "divider">>
  /\ b2m.result
       = <<"1", ".", " ", "a", NL, "1", ".", " ", "a", NL, "-", "-", "-">>

(***************************************************************************)
(* Calls do not share state (specification SpecCalls).                     *)
(***************************************************************************)
\* C19: whatever calls came before and whatever calls are under way, the
\* result of a call is the result of its function on its own argument, and
\* the spans of a block are those of the text of its own line.
C19_CallsIndependent ==
  /\ m2b.pc = "done" =>
       /\ m2b.blocks = markdownToBlocks(m2b.markdown)
       /\ \A k \in 1..Len(m2b.blocks) :
            m2b.blocks[k].type \in TextTypes =>
              m2b.blocks[k][m2b.blocks[k].type].rich_text
                = parseRichText(TextOfLine(LineOfBlock(k)))
  /\ prt.pc = "done" => prt.result = parseRichText(prt.text)
  /\ b2m.pc = "done" => b2m.result = blocksToMarkdown(b2m.blocks)

\* After a document that ended inside a list run, and while a parseRichText
\* call is under way with bold active and a blocksToMarkdown call is under
\* way, a heading document gave its one heading.
C19_Witness ==
  /\ m2b.pc = "done"
  /\ m2b.previous = <<"-", " ", "a">>
  /\ m2b.markdown = <<"#", " ", "a">>
  /\ m2b.blocks = <<createHeading(1, <<"a">>)>>
  /\ prt.pc = "for" /\ prt.bold
  /\ b2m.pc = "for" /\ b2m.k = 1

(***************************************************************************)
(* Properties of contentConvert (specification SpecConvert).               *)
(***************************************************************************)
Settled == cc.pc \in {"fulfilled", "rejected"}

\* The promise is rejected with an error and no result was made.
Rejected ==
  /\ cc.pc = "rejected"
  /\ cc.error # noValue
  /\ cc.result = noValue

\* Whether a content is a string that JSON-decodes to an array.
DecodesToArray(content) ==
  /\ content.kind = "string"
  /\ ~JSONparse(content.value).threw
  /\ JSONparse(content.value).value.kind = "array"

\* C20: contentConvert rejects, with no result, a markdown-to-blocks call
\* whose content is no string and a blocks-to-markdown call whose content
\* is neither an array nor a string that decodes to an array; for a string
\* that decodes to an array it settles as it does for the decoded array,
\* with the same markdown.
C20_ConvertValidates ==
  Settled =>
    LET direction == cc.input.direction
        content == cc.input.content
    IN /\ (direction = "markdown-to-blocks" /\ content.kind # "string")
            => Rejected
       /\ ( /\ direction = "blocks-to-markdown"
            /\ content.kind # "array"
            /\ ~DecodesToArray(content) ) => Rejected
       /\ (direction = "blocks-to-markdown" /\ DecodesToArray(content)) =>
            LET decoded ==
                  contentConvert([direction |-> direction,
                                  content |-> JSONparse(content.value).value])
            IN /\ cc.pc = decoded.pc
               /\ cc.result = decoded.result

\* The JSON text of a divider and an empty object gave the markdown of the
\* divider.
C20_Witness ==
  /\ cc.pc = "fulfilled"
  /\ cc.input = [direction |-> "blocks-to-markdown",
                 content |-> jsString(JSONTwoBlocks)]
  /\ cc.result.markdown = <<"-", "-", "-">>
  /\ cc.result.char_count = 3

\* A number given as markdown and a markdown document given as blocks were
\* rejected.
C20_WitnessRejected ==
  /\ Rejected
  /\ cc.input = [direction |-> "blocks-to-markdown",
                 content |-> jsString(<<"#", " ", "a">>)]
  /\ cc.error.message = MustBeJSON

(***************************************************************************)
(* The shape of the blocks of markdownToBlocks (specification Spec).       *)
(***************************************************************************)
\* A span with a string content, the six annotations, underline false and
\* the default color.
WellFormedSpan(rt) ==
  /\ DOMAIN rt = {"type", "text", "annotations"}
  /\ rt.type = "text"
  /\ DOMAIN rt.text = {"content", "link"}
  /\ DOMAIN rt.annotations
       = {"bold", "italic", "strikethrough", "underline", "code", "color"}
  /\ rt.annotations.underline = FALSE
  /\ rt.annotations.color = "default"

Unformatted(rt) ==
  /\ rt.text.link = nullLink
  /\ ~rt.annotations.bold /\ ~rt.annotations.italic
  /\ ~rt.annotations.code /\ ~rt.annotations.strikethrough

\* A block of one of the nine types whose payload is under the key of its
\* type: a list of at least one span, or a language and one unformatted
\* span, or nothing.
WellFormedBlock(block) ==
  /\ block.type \in SupportedTypes
  /\ DOMAIN block = {"object", "type", block.type}
  /\ block.type \in TextTypes =>
       /\ Len(block[block.type].rich_text) >= 1
       /\ \A n \in 1..Len(block[block.type].rich_text) :
            WellFormedSpan(block[block.type].rich_text[n])
  /\ block.type = "code" =>
       /\ DOMAIN block.code = {"rich_text", "language"}
       /\ DOMAIN block.code.language = 1..Len(block.code.language)
       /\ Len(block.code.rich_text) = 1
       /\ WellFormedSpan(block.code.rich_text[1])
       /\ Unformatted(block.code.rich_text[1])
  /\ block.type = "divider" => block.divider = <<>>

\* C21: every block markdownToBlocks holds, returned or buffered, has one of
\* the nine types and its payload under the key of its type, and every span
\* has underline false and the default color.
C21_BlocksWellFormed ==
  /\ \A k \in 1..Len(m2b.blocks) : WellFormedBlock(m2b.blocks[k])
  /\ \A k \in 1..Len(m2b.currentList) : WellFormedBlock(m2b.currentList[k])

\* A list item, a code block and a heading were returned, and so was a
\* paragraph with a link span.
C21_Witness ==
  /\ Done
  /\ TypesOf(m2b.blocks) = <<"bulleted_list_item", "code", "heading_1">>
  /\ C21_BlocksWellFormed

C21_WitnessLink ==
  /\ Done
  /\ \E k \in 1..Len(m2b.blocks) :
       /\ m2b.blocks[k].type = "paragraph"
       /\ \E n \in 1..Len(m2b.blocks[k].paragraph.rich_text) :
            m2b.blocks[k].paragraph.rich_text[n].text.link # nullLink
  /\ C21_BlocksWellFormed

(***************************************************************************)
(* Lines without markers (specification SpecRich).                         *)
(***************************************************************************)
\* C22: a line with no inline marker, the empty line included, gives exactly
\* one span: the whole line, with no link and every annotation false.
C22_MarkerFreeLine ==
  (RichDone /\ ~HasInlineMarker(prt.text)) =>
    /\ Len(prt.result) = 1
    /\ prt.result[1].text = [content |-> prt.text, link |-> nullLink]
    /\ Unformatted(prt.result[1])
    /\ WellFormedSpan(prt.result[1])

\* A line of brackets and one tilde, which hold no marker, gave one span.
C22_Witness ==
  /\ RichDone
  /\ prt.text = <<"[", "a", "]", "~">>
  /\ prt.result = <<createRichText(<<"[", "a", "]", "~">>, NoAnnotations)>>

\* The empty line gave one span with the empty content.
C22_WitnessEmpty ==
  /\ RichDone
  /\ prt.text = <<>>
  /\ prt.result = <<createRichText(<<>>, NoAnnotations)>>

(***************************************************************************)
(* Properties of extractPlainText (specification SpecPlain).               *)
(***************************************************************************)
\* The contents of some spans, one after another.
RECURSIVE ContentsOf(_)
ContentsOf(richText) ==
  IF richText = <<>> THEN <<>>
  ELSE Head(richText).text.content \o ContentsOf(Tail(richText))

\* Some spans with their annotations and links taken away.
Bare(richText) ==
  [n \in 1..Len(richText) |->
     createRichText(richText[n].text.content, NoAnnotations)]

\* C23: extractPlainText returns for every sequence of spans, with the
\* contents of the spans in order and nothing else: it gives what it gives
\* for the same spans without annotations and links, so that two sequences
\* that differ only in those give the same string, and the empty string
\* for the empty sequence.
C23_PlainTextOnly ==
  /\ ept.pc \in {"idle", "map", "done"}
  /\ ept.pc = "map" => ept.k <= Len(ept.richText)
  /\ ept.pc = "done" =>
       /\ ept.result = ContentsOf(ept.richText)
       /\ ept.result = extractPlainText(ept.richText)
       /\ ept.result = extractPlainText(Bare(ept.richText))
       /\ ept.richText = <<>> => ept.result = <<>>

\* A bold span with a link, an empty span and a plain span gave their
\* contents.
C23_Witness ==
  /\ ept.pc = "done"
  /\ Len(ept.richText) = 3
  /\ ept.richText[1].annotations.bold
  /\ ept.richText[1].text = [content |-> <<"b", "*">>, link |-> [url |-> <<"u">>]]
  /\ ept.richText[2].text.content = <<>>
  /\ ept.richText[3] = createRichText(<<"a">>, NoAnnotations)
  /\ ept.result = <<"b", "*", "a">>

(***************************************************************************)
(* Parsing again what was rendered (specification Spec).                   *)
(***************************************************************************)
\* C24: the blocks of a document, rendered and parsed again, are the same
\* blocks: as many, of the same types in the same order, with the same
\* span contents, annotations and links.
C24_ReparseStable ==
  Done => markdownToBlocks(blocksToMarkdown(m2b.blocks)) = m2b.blocks

(***************************************************************************)
(* The list buffer and the lines consumed (specification Spec).            *)
(***************************************************************************)
\* The lines before line i that give a block: the lines that are not blank
\* and neither inside a fenced run nor its closing fence.
ProducingLines(i) ==
  {j \in 0..(Len(m2b.lines) - 1) :
     j < i /\ NonBlank(At(m2b.lines, j)) /\ ~InsideFence(j)}

\* Whether some blocks are the blocks of the lines `from', one block for
\* each line of `expected', in the order of the lines.
BlocksOfLines(blocks, from, expected) ==
  /\ Len(from) = Len(blocks)
  /\ \A a, b \in 1..Len(from) : a < b => from[a] < from[b]
  /\ {from[k] : k \in 1..Len(from)} = expected
  /\ \A k \in 1..Len(blocks) :
       LET line == At(m2b.lines, from[k])
       IN /\ blocks[k].type = RuleType(line, WhiteSpace)
          /\ blocks[k].type \in TextTypes =>
               blocks[k][blocks[k].type].rich_text
                 = parseRichText(TextOfLine(line))

\* C25: at the head of the line loop the list type is set exactly when the
\* buffer holds an item, and blocks followed by the buffer are the blocks
\* of the lines read so far, one for each line, in order; the blocks
\* returned are the blocks of all the lines.
C25_ListBuffer ==
  /\ m2b.pc = "for" =>
       /\ (m2b.currentListType # null) <=> (m2b.currentList # <<>>)
       /\ BlocksOfLines(m2b.blocks \o m2b.currentList,
                        m2b.blockLines \o m2b.listLines,
                        ProducingLines(m2b.i))
  /\ Done =>
       BlocksOfLines(m2b.blocks, m2b.blockLines,
                     ProducingLines(Len(m2b.lines)))

\* At the end of the loop a list item was still buffered, after an item a
\* blank line had flushed.
C25_Witness ==
  /\ m2b.pc = "for"
  /\ m2b.lines = << <<"-", " ", "a">>, <<>>, <<"*", " ", "b">> >>
  /\ m2b.i = 3
  /\ TypesOf(m2b.blocks) = <<"bulleted_list_item">>
  /\ m2b.blockLines = <<0>>
  /\ Len(m2b.currentList) = 1
  /\ m2b.listLines = <<2>>
  /\ m2b.currentListType = "bulleted"

\* What line j is consumed as.
ConsumedAs(j) ==
  LET line == At(m2b.lines, j)
  IN IF InsideFence(j)
     THEN (IF Begins(line, Fence) THEN "closer" ELSE "interior")
     ELSE IF ~NonBlank(line) THEN "blank"
     ELSE IF Begins(line, Fence) THEN "opener"
     ELSE "block"

LinesConsumedAs(kind) ==
  {j \in 0..(Len(m2b.lines) - 1) : ConsumedAs(j) = kind}

\* The number of blocks made so far, buffered list items included.
Made(f) == Len(f.blocks) + Len(f.currentList)

\* One step of the loops consumes the line at the index, as what the line
\* is, and moves the index on by one.
ConsumesOneLine ==
  LET j == m2b.i
      kind == IF j < Len(m2b.lines) THEN ConsumedAs(j) ELSE "none"
  IN /\ m2b'.i = j + 1
     /\ m2b.pc = "for" =>
          /\ kind \in {"blank", "block", "opener"}
          /\ kind = "blank" => m2b'.pc = "for" /\ Made(m2b') = Made(m2b)
          /\ kind = "block" => m2b'.pc = "for" /\ Made(m2b') = Made(m2b) + 1
          /\ kind = "opener" => m2b'.pc = "while" /\ Made(m2b') = Made(m2b)
     /\ m2b.pc = "while" =>
          /\ kind \in {"interior", "closer", "none"}
          /\ kind = "interior" =>
               m2b'.pc = "while" /\ Made(m2b') = Made(m2b)
          /\ kind \in {"closer", "none"} =>
               m2b'.pc = "for" /\ Made(m2b') = Made(m2b) + 1

\* C26: markdownToBlocks terminates: every step of the outer and of the
\* inner loop moves the index on by one line, which it consumes as a blank
\* line, a line that gives a block, a fence opener, a line inside the fence
\* or a fence closer, and the loop ends at the end of the lines; the
\* number of blocks returned is the number of lines that give a block plus
\* the number of fence openers.
C26_LinesConsumedOnce ==
  [][/\ m2b'.pc # "done" => ConsumesOneLine
     /\ m2b'.pc = "done" =>
          /\ m2b.i >= Len(m2b.lines)
          /\ m2b'.i = m2b.i
          /\ Len(m2b'.blocks)
               = Cardinality(LinesConsumedAs("block"))
                   + Cardinality(LinesConsumedAs("opener"))]_vars

\* A document with a line of each kind, a list item before a fenced run and
\* a blank line after it, gave two blocks.
C26_Witness ==
  /\ Done
  /\ LinesConsumedAs("block") # {}
  /\ LinesConsumedAs("opener") # {}
  /\ LinesConsumedAs("interior") # {}
  /\ LinesConsumedAs("closer") # {}
  /\ LinesConsumedAs("blank") # {}
  /\ TypesOf(m2b.blocks) = <<"bulleted_list_item", "code">>

(***************************************************************************)
(* Properties of pagesEdit with prepend_content (specification             *)
(* SpecPrepend).                                                           *)
(***************************************************************************)
\* C27: once pagesEdit with prepend_content has returned, the children of
\* the page are the blocks parsed from prepend_content, followed by one
\* block re-created from each block the page held at the call, of the type
\* of that block and in the order the page held them: none comes before the
\* new content and none is missing.
C27_PrependKeepsExisting ==
  pe.pc = "done" =>
    LET after == blocksOf(pe.children)
        new == markdownToBlocks(pe.prepend_content)
        old == blocksOf(pe.before)
        rest == SubSeq(after, Len(new) + 1, Len(after))
    IN /\ Len(after) >= Len(new)
       /\ SubSeq(after, 1, Len(new)) = new
       /\ TypesOf(rest) = TypesOf(old)

(***************************************************************************)
(* Properties of autoPaginate (specifications SpecPaginate and             *)
(* SpecPaginateFair).                                                      *)
(***************************************************************************)
ResultsOf(responses) ==
  concat([j \in 1..Len(responses) |-> responses[j].results])

\* What holds of the fetches made so far, and of the return.
PaginateSafe ==
  LET n == ap.pageCount
  IN /\ Len(ap.calls) = n
     /\ Len(ap.responses) = n
     /\ \A j \in 1..n :
          /\ ap.calls[j].cursor =
               (IF j = 1 THEN undefined ELSE ap.responses[j - 1].next_cursor)
          /\ ap.responses[j] =
               fetchFn(ap.fetchFn, ap.calls[j].cursor, ap.pageSize)
     /\ \A j \in 1..(n - 1) : ap.responses[j].next_cursor # null
     /\ ap.allResults = ResultsOf(ap.responses)
     /\ ap.maxPages > 0 => n <= ap.maxPages
     /\ ap.pc \in {"return", "done"} =>
          /\ n >= 1
          /\ \/ ap.responses[n].next_cursor = null
             \/ ap.maxPages > 0 /\ n = ap.maxPages
     /\ ap.pc = "do" /\ n >= 1 =>
          /\ ap.responses[n].next_cursor # null
          /\ ~(ap.maxPages > 0 /\ n >= ap.maxPages)
     /\ ap.pc = "done" => ap.result = ResultsOf(ap.responses)

\* The listing answers null after finitely many pages.
ListingEnds == ap.pc # "idle" /\ ap.fetchFn.last = null

\* C28: autoPaginate fetches at least once before it returns; the first
\* fetch gets no cursor and every later one the next_cursor of the response
\* before it; no fetch follows a response whose next_cursor is null, and
\* without maxPages reached none is left out; what is returned is the
\* results of the responses joined in fetch order; with maxPages > 0 there
\* are at most maxPages fetches.  On a listing that answers null after
\* finitely many pages the call returns.
C28_Paginate == []PaginateSafe /\ (ListingEnds ~> ap.pc = "done")

\* Three pages fetched to the end of the listing, and a listing without end
\* cut at maxPages.
C28_Witness ==
  /\ ap.pc = "done"
  /\ ap.maxPages = 0
  /\ ap.pageCount = 3
  /\ ap.result = <<"x", "y", "z">>

C28_WitnessMaxPages ==
  /\ ap.pc = "done"
  /\ ap.fetchFn.last # null
  /\ ap.maxPages = 2
  /\ ap.pageCount = 2

(***************************************************************************)
(* Properties of the update action of the blocks tool (specification       *)
(* SpecUpdate).                                                            *)
(***************************************************************************)
\* The rich text of a block: that of its payload, none for a divider.
RichTextOf(block) ==
  IF block.type = "divider" THEN <<>> ELSE block[block.type].rich_text

UpdateSettled == bu.pc \in {"fulfilled", "rejected"}

\* The content is there and parses to at least one block.
UpdateContentGiven ==
  /\ bu.input.content # <<>>
  /\ bu.input.content # << <<>> >>
  /\ markdownToBlocks(bu.input.content[1]) # <<>>

\* C29: the update action on a stored block of type paragraph, heading_1,
\* heading_2, heading_3, bulleted_list_item, numbered_list_item or quote,
\* with content that parses to at least one block, sends one update that
\* sets the rich_text of that type to the rich text of the first block
\* parsed from the content; on a stored block of any other type, without
\* content or with content that parses to no block, the call fails with
\* VALIDATION_ERROR and no update is sent.
C29_UpdateFirstBlockText ==
  UpdateSettled =>
    IF bu.stored.type \in UpdatableTypes /\ UpdateContentGiven
    THEN /\ bu.pc = "fulfilled"
         /\ bu.updates =
              << [block_id |-> bu.input.block_id, type |-> bu.stored.type,
                  rich_text |->
                    RichTextOf(markdownToBlocks(bu.input.content[1])[1])] >>
    ELSE /\ bu.pc = "rejected"
         /\ bu.error.code = "VALIDATION_ERROR"
         /\ bu.updates = <<>>

(***************************************************************************)
(* Properties of blocksToMarkdown on blocks that are not whole             *)
(* (specification SpecMalformed).                                          *)
(***************************************************************************)
\* The block has the payload of its type.
HasPayload(block) == block.type \in DOMAIN block

\* The spans of a rich_text that can be rendered: none where the rich_text
\* is missing or no array, and of an array the spans that are objects with a
\* text object.
IsSpan(rt) == "text" \in DOMAIN rt /\ "content" \in DOMAIN rt.text

SoundSpans(payload) ==
  IF "rich_text" \notin DOMAIN payload THEN <<>>
  ELSE IF \E kind \in 1..5 : payload.rich_text = RichTextOfKind(kind) THEN <<>>
  ELSE SelectSeq(payload.rich_text, IsSpan)

SoundText(payload) ==
  LET spans == SoundSpans(payload)
  IN concat([k \in 1..Len(spans) |-> spanToMarkdown(spans[k])])

\* The lines of a block, with what cannot be rendered taken for empty text.
SoundLines(block) ==
  CASE block.type = "divider" -> << <<"-", "-", "-">> >>
    [] block.type = "code" ->
         << Fence \o block.code.language, SoundText(block.code), Fence >>
    [] OTHER ->
         << PrefixOf(block.type) \o SoundText(block[block.type]) >>

\* C30: on blocks of supported types that each have their payload,
\* blocksToMarkdown does not raise, whatever the rich_text of a payload is
\* (missing, null, no array) and whatever its spans are (null, without a
\* text object): every block gives its lines, the prefix of its type
\* followed by the rendered spans that are whole, and a rich_text or a span
\* that is not gives empty text.
C30_MalformedRendered ==
  (\A k \in 1..Len(b2m.blocks) : HasPayload(b2m.blocks[k])) =>
    /\ b2m.pc # "threw"
    /\ b2m.lines =
         concat([k \in 1..b2m.k |-> SoundLines(b2m.blocks[k])])
    /\ b2m.pc = "done" =>
         /\ b2m.k = Len(b2m.blocks)
         /\ b2m.result = join(b2m.lines, NL)

\* A heading whose rich_text is null, before a quote: the line of the
\* heading is its prefix alone.
C30_Witness ==
  /\ b2m.pc = "done"
  /\ Len(b2m.blocks) = 2
  /\ b2m.blocks[1].type = "heading_2"
  /\ b2m.blocks[1].heading_2.rich_text = notArray("null")
  /\ b2m.result = <<"#", "#", " ", NL, ">", " ", "q">>

\* A list item with a span that has no text between two spans that are
\* whole.
C30_WitnessSpan ==
  /\ b2m.pc = "done"
  /\ b2m.blocks = <<BlockOfKind("bulleted_list_item", 9)>>
  /\ b2m.result = <<"-", " ", "a", "b">>

\* A block without its payload: the call raises.
C30_WitnessRaised == b2m.pc = "threw"

=============================================================================
